---- MODULE Spec2Model ----
(***************************************************************************)
(* Model of the trading-portfolio analytics backend:                       *)
(*   - AnalyticsService.calculate_all_analytics  (analytics_service.py)    *)
(*   - TradeParserService.load_trades_from_file  (trade_parser_service.py) *)
(*   - the upload and read endpoints             (endpoints/analytics.py)  *)
(*                                                                         *)
(* Numbers.  Python/numpy floats are modelled by exact rationals           *)
(* [n |-> numerator, d |-> denominator] in lowest terms with d > 0; the    *)
(* IEEE specials produced by a numpy division by zero are d = 0:           *)
(* n = 1 is +inf, n = -1 is -inf, n = 0 is nan.  Quantities that are sums  *)
(* of the (integer) model profits stay integers.                           *)
(* A raised Python exception is the record [exc |-> <class name>].         *)
(* Timestamps are integers (hours since an epoch).                         *)
(***************************************************************************)
EXTENDS Integers, Sequences, FiniteSets, TLC

VARIABLES
    pc,        \* position of the caller: "build" (assembling the input) or "done"
    trades,    \* the List[Trade] handed to calculate_all_analytics
    frame,     \* local variables of calculate_all_analytics when it returned
    result,    \* what the call returned: an Analytics record or [exc |-> ...]
    file,      \* the file handed to load_trades_from_file: [ext, rows]
    pframe,    \* local variables of load_trades_from_file when it returned
    presult,   \* what load_trades_from_file returned: a Trade list or [exc |-> ...]
    raw_dir,   \* the upload directory data/raw: [exists, files], files oldest first
    response,  \* the last HTTP exchange of a router: request and answer
    db,        \* the MongoDB collections: [users, sessions, verifications]
    clock,     \* datetime.utcnow(), in minutes
    tokens,    \* the tokens handed to clients so far: sign-in answers, reset emails
    calls      \* the create_user coroutines in flight: where each one is suspended

vars == <<pc, trades, frame, result, file, pframe, presult, raw_dir, response,
          db, clock, tokens, calls>>

\* ------------------------------------------------------------------ bounds
MaxTrades == 3

\* ------------------------------------------------------- generic helpers
Abs(x) == IF x < 0 THEN -x ELSE x

Sign(x) == IF x > 0 THEN 1 ELSE IF x < 0 THEN -1 ELSE 0

RECURSIVE GCD(_, _)
GCD(a, b) == IF b = 0 THEN a ELSE GCD(b, a % b)

\* a/b as a float: lowest terms; b = 0 gives the IEEE special of sign a
Rat(a, b) ==
    IF b = 0 THEN [n |-> Sign(a), d |-> 0]
    ELSE LET g == GCD(Abs(a), Abs(b))
             s == IF b < 0 THEN -1 ELSE 1
         IN  [n |-> (s * a) \div g, d |-> (s * b) \div g]

FromInt(x) == [n |-> x, d |-> 1]

Raise(name) == [exc |-> name]

IsExc(x) == "exc" \in DOMAIN x

RECURSIVE SumSeq(_)
SumSeq(s) == IF s = <<>> THEN 0 ELSE Head(s) + SumSeq(Tail(s))

MaxOfSet(S) == CHOOSE x \in S : \A y \in S : y <= x

MinOfSet(S) == CHOOSE x \in S : \A y \in S : x <= y

Range(s) == {s[i] : i \in DOMAIN s}

\* ------------------------------------------------ analytics_service.py
\* Series.mean() of a non-empty integer series
Mean(s) == Rat(SumSeq(s), Len(s))

\* numpy float64 true division x / y of two floats (inf/nan on a zero divisor)
NpDivide(x, y) ==
    IF y.d = 0 \/ x.d = 0 THEN [n |-> 0, d |-> 0]
    ELSE Rat(x.n * y.d, x.d * y.n)

\* position at which insertion sort puts key t: after every element <= t
RECURSIVE InsertSorted(_, _)
InsertSorted(s, t) ==
    IF s = <<>> THEN <<t>>
    ELSE IF s[Len(s)].open_time <= t.open_time THEN Append(s, t)
    ELSE Append(InsertSorted(SubSeq(s, 1, Len(s) - 1), t), s[Len(s)])

NoSort(s) == s

RECURSIVE SortValues(_)
\* df.sort_values('open_time'): for frames of this size numpy's default sort
\* is an insertion sort, which keeps rows of equal open_time in input order
SortValues(s) ==
    IF s = <<>> THEN <<>>
    ELSE InsertSorted(SortValues(SubSeq(s, 1, Len(s) - 1)), s[Len(s)])

ProfitCol(df) == [i \in DOMAIN df |-> df[i].profit_usd]

IsWin(t) == t.profit_usd > 0

IsLoss(t) == t.profit_usd < 0

IsEven(t) == t.profit_usd = 0

CountWinning(df) == Len(SelectSeq(df, IsWin))

CountLosingLE(df) == Len(SelectSeq(df, LAMBDA t : t.profit_usd <= 0))

CountLosing(df) == Len(SelectSeq(df, IsLoss))

CountBreakEven(df) == Len(SelectSeq(df, IsEven))

WinRate(winning, total_trades) ==
    IF total_trades > 0 THEN Rat(winning * 100, total_trades) ELSE FromInt(0)

Gains(df) == SumSeq(ProfitCol(SelectSeq(df, IsWin)))

Losses(df) == Abs(SumSeq(ProfitCol(SelectSeq(df, IsLoss))))

ProfitFactorInf(gains, losses) == Rat(gains, losses)

ProfitFactor(gains, losses) ==
    IF losses > 0 THEN Rat(gains, losses) ELSE FromInt(0)

AvgWin(df, winning) ==
    IF winning > 0 THEN Mean(ProfitCol(SelectSeq(df, IsWin))) ELSE FromInt(0)

\* the average loss without the floor of 1 for a list with no losing trade
AvgLossZeroFloor(df, losing) ==
    IF losing > 0
    THEN LET m == Mean(ProfitCol(SelectSeq(df, IsLoss))) IN [n |-> Abs(m.n), d |-> m.d]
    ELSE FromInt(0)

\* abs(df[df['profit_usd'] < 0]['profit_usd'].mean()) if losing > 0 else 1
AvgLoss(df, losing) ==
    IF losing > 0
    THEN LET m == Mean(ProfitCol(SelectSeq(df, IsLoss))) IN [n |-> Abs(m.n), d |-> m.d]
    ELSE FromInt(1)

PayoffRatio(avg_win, avg_loss) ==
    IF avg_loss.n > 0 THEN NpDivide(avg_win, avg_loss) ELSE FromInt(0)

\* a running total that leaves the row's own value out
CumSumExclusive(s) == [i \in DOMAIN s |-> SumSeq(SubSeq(s, 1, i - 1))]

\* Series.cumsum()
CumSum(s) == [i \in DOMAIN s |-> SumSeq(SubSeq(s, 1, i))]

CumMaxFromZero(s) == [i \in DOMAIN s |-> MaxOfSet({0} \cup {s[j] : j \in 1..i})]

\* Series.cummax(): the running maximum starts from the first value
CumMax(s) == [i \in DOMAIN s |-> MaxOfSet({s[j] : j \in 1..i})]

Drawdown(cumsum, running_max) == [i \in DOMAIN cumsum |-> cumsum[i] - running_max[i]]

MaxDrawdownPct(max_drawdown, running_max) ==
    LET peak == MaxOfSet(Range(running_max))
    IN  IF peak > 0 THEN Rat(max_drawdown * 100, peak) ELSE FromInt(0)

\* df['sign'] = np.sign(df['profit_usd'])
SignCol(df) == [i \in DOMAIN df |-> Sign(df[i].profit_usd)]

\* streak groups in which a break-even trade continues the run before it
StreakGroupThroughZero(sign) ==
    [i \in DOMAIN sign |->
        Cardinality({j \in 1..i : j = 1 \/ (sign[j] # sign[j - 1] /\ sign[j] # 0)})]

\* (df['sign'] != df['sign'].shift()).cumsum(): shift() puts NaN first, so the
\* first row always opens group 1
StreakGroup(sign) ==
    [i \in DOMAIN sign |->
        Cardinality({j \in 1..i : j = 1 \/ sign[j] # sign[j - 1]})]

GroupIds(group) == Range(group)

GroupSize(group, g) == Cardinality({i \in DOMAIN group : group[i] = g})

GroupSum(df, group, g) ==
    SumSeq(ProfitCol(SelectSeq([i \in DOMAIN df |-> [profit_usd |-> df[i].profit_usd, g |-> group[i]]],
                               LAMBDA r : r.g = g)))

LongestWin(df, group) ==
    LET win_streaks == {g \in GroupIds(group) : GroupSum(df, group, g) > 0}
    IN  IF win_streaks # {} THEN MaxOfSet({GroupSize(group, g) : g \in win_streaks}) ELSE 0

LongestLoss(df, group) ==
    LET loss_streaks == {g \in GroupIds(group) : GroupSum(df, group, g) < 0}
    IN  IF loss_streaks # {} THEN MaxOfSet({GroupSize(group, g) : g \in loss_streaks}) ELSE 0

\* df['symbol'].unique() and the per-symbol dictionary
SymbolStats(df) ==
    LET symbols == {df[i].symbol : i \in DOMAIN df}
    IN  [s \in symbols |->
            LET symbol_df == SelectSeq(df, LAMBDA t : t.symbol = s)
            IN  [trades     |-> Len(symbol_df),
                 profit     |-> SumSeq(ProfitCol(symbol_df)),
                 win_rate   |-> WinRate(CountWinning(symbol_df), Len(symbol_df)),
                 avg_profit |-> Mean(ProfitCol(symbol_df))]]

\* calendar of the model: a timestamp is a count of hours since
\* 2025-01-01T00:00, a date a count of days since 2025-01-01, a month a count
\* of calendar months since 2025-01 (years of 365 days: 2025, 2026, 2027)
HourOf(t) == t % 24

DateOf(t) == t \div 24

MonthDays == <<31, 28, 31, 30, 31, 30, 31, 31, 30, 31, 30, 31>>

\* days of the year that lie before month m
DaysBefore(m) == SumSeq([k \in 1..(m - 1) |-> MonthDays[k]])

YearOf(t) == 2025 + (DateOf(t) \div 365)

DayOfYear(t) == DateOf(t) % 365

\* the calendar month 1..12 and the day of the month 1..31
MonthNumber(t) ==
    CHOOSE m \in 1..12 :
        DaysBefore(m) <= DayOfYear(t) /\ DayOfYear(t) < DaysBefore(m) + MonthDays[m]

DayOfMonth(t) == DayOfYear(t) - DaysBefore(MonthNumber(t)) + 1

\* dt.to_period('M'): month 0 is 2025-01, month 1 is 2025-02
MonthOf(t) == (YearOf(t) - 2025) * 12 + MonthNumber(t) - 1

Pad2(n) == IF n < 10 THEN "0" \o ToString(n) ELSE ToString(n)

\* datetime.isoformat()
IsoFormat(t) ==
    ToString(YearOf(t)) \o "-" \o Pad2(MonthNumber(t)) \o "-" \o Pad2(DayOfMonth(t))
        \o "T" \o Pad2(HourOf(t)) \o ":00:00"

\* a < b on floats
RatLess(a, b) == a.n * b.d < b.n * a.d

\* Series.idxmax() / idxmin() of a series f indexed by integer keys in
\* ascending order: the first key that holds the extreme value
IdxMax(f) == MinOfSet({k \in DOMAIN f : \A j \in DOMAIN f : f[j] <= f[k]})

IdxMin(f) == MinOfSet({k \in DOMAIN f : \A j \in DOMAIN f : f[k] <= f[j]})

IdxMaxRat(f) == MinOfSet({k \in DOMAIN f : \A j \in DOMAIN f : ~RatLess(f[k], f[j])})

\* the date of the first row only
DatesOfFirstRow(df) == {DateOf(df[1].open_time)}

\* the keys of df.groupby(df['open_time'].dt.date)
Dates(df) == {DateOf(df[i].open_time) : i \in DOMAIN df}

OnDate(df, d) == SelectSeq(df, LAMBDA t : DateOf(t.open_time) = d)

\* df.groupby(df['open_time'].dt.date)['profit_usd'].sum()
Daily(df) == [d \in Dates(df) |-> SumSeq(ProfitCol(OnDate(df, d)))]

\* df.groupby('hour')['profit_usd'].mean()
Hourly(df) ==
    [h \in {HourOf(df[i].open_time) : i \in DOMAIN df} |->
        Mean(ProfitCol(SelectSeq(df, LAMBDA t : HourOf(t.open_time) = h)))]

\* the keys of a group-by in ascending order
RECURSIVE SortedKeys(_)
SortedKeys(S) ==
    IF S = {} THEN <<>> ELSE <<MinOfSet(S)>> \o SortedKeys(S \ {MinOfSet(S)})

\* one DailyStats per date, dates ascending
DailyStats(df) ==
    LET ks == SortedKeys(Dates(df))
    IN  [k \in DOMAIN ks |->
            LET group == OnDate(df, ks[k])
            IN  [date     |-> ks[k],
                 trades   |-> Len(group),
                 profit   |-> SumSeq(ProfitCol(group)),
                 win_rate |-> WinRate(CountWinning(group), Len(group)),
                 max_loss |-> MinOfSet(Range(ProfitCol(group)))]]

\* one MonthlyStats per month, months ascending
MonthlyStats(df) ==
    LET ks == SortedKeys({MonthOf(df[i].open_time) : i \in DOMAIN df})
    IN  [k \in DOMAIN ks |->
            LET group == SelectSeq(df, LAMBDA t : MonthOf(t.open_time) = ks[k])
            IN  [month     |-> ks[k],
                 trades    |-> Len(group),
                 profit    |-> SumSeq(ProfitCol(group)),
                 win_rate  |-> WinRate(CountWinning(group), Len(group)),
                 best_day  |-> IdxMax(Daily(group)),
                 worst_day |-> IdxMin(Daily(group))]]

\* inner edges of profit_bins; the outer edges are -inf and +inf
profit_bins == <<-1000, -500, -100, 0, 100, 500, 1000>>

\* duration_bins without its outer edge +inf
duration_bins == <<0, 30, 60, 120, 240, 480, 1440>>

\* Series.value_counts(bins=..., sort=False): the counts of the right-closed
\* intervals in ascending order, or nothing at all when every count is 0
ValueCounts(counts) ==
    IF \A k \in DOMAIN counts : counts[k] = 0 THEN <<>> ELSE counts

\* intervals (-inf, -1000], (-1000, -500], ..., (1000, inf]
ProfitDistribution(df) ==
    ValueCounts([k \in 1..(Len(profit_bins) + 1) |->
        Cardinality({i \in DOMAIN df :
            Cardinality({e \in DOMAIN profit_bins : df[i].profit_usd > profit_bins[e]}) = k - 1})])

\* intervals [0, 30], (30, 60], ..., (1440, inf]: the lowest edge is included,
\* a negative duration falls in no interval
DurationDistribution(df) ==
    ValueCounts([k \in 1..Len(duration_bins) |->
        Cardinality({i \in DOMAIN df :
            /\ df[i].duration >= 0
            /\ (IF df[i].duration = 0 THEN 1
                ELSE Cardinality({e \in DOMAIN duration_bins :
                         df[i].duration > duration_bins[e]})) = k})])

TotalProfitPctPy(df, total_profit) ==
    LET notional == Abs(df[1].open_price * df[1].volume * 100000)
    IN  IF notional = 0 THEN Raise("ZeroDivisionError")
        ELSE Rat(total_profit * 100, notional)

\* the percentage taken on the notional of the last row
TotalProfitPctLastRow(df, total_profit) ==
    LET notional == Abs(df[Len(df)].open_price * df[Len(df)].volume * 100000)
    IN  Rat(total_profit * 100, notional)

\* total_profit / abs(open_price.iloc[0] * volume.iloc[0] * 100000) * 100 on
\* numpy float64 scalars: a zero notional gives inf or nan, not an exception
TotalProfitPct(df, total_profit) ==
    LET notional == Abs(df[1].open_price * df[1].volume * 100000)
    IN  Rat(total_profit * 100, notional)

\* the local variables of calculate_all_analytics for a non-empty input
Locals(trades_in) ==
    LET df          == SortValues(trades_in)
        cumsum      == CumSum(ProfitCol(df))
        running_max == CumMax(cumsum)
        sign        == SignCol(df)
    IN  [df           |-> df,
         cumsum       |-> cumsum,
         running_max  |-> running_max,
         drawdown     |-> Drawdown(cumsum, running_max),
         sign         |-> sign,
         streak_group |-> StreakGroup(sign)]

\* the Analytics(...) object built from the locals
BuildAnalytics(f) ==
    LET df           == f.df
        total_trades == Len(df)
        winning      == CountWinning(df)
        losing       == CountLosing(df)
        total_profit == SumSeq(ProfitCol(df))
        max_drawdown == MinOfSet(Range(f.drawdown))
    IN  [total_trades        |-> total_trades,
         winning_trades      |-> winning,
         losing_trades       |-> losing,
         break_even          |-> CountBreakEven(df),
         total_profit        |-> total_profit,
         total_profit_pct    |-> TotalProfitPct(df, total_profit),
         average_profit      |-> Mean(ProfitCol(df)),
         win_rate            |-> WinRate(winning, total_trades),
         profit_factor       |-> ProfitFactor(Gains(df), Losses(df)),
         payoff_ratio        |-> PayoffRatio(AvgWin(df, winning), AvgLoss(df, losing)),
         max_drawdown        |-> max_drawdown,
         max_drawdown_pct    |-> MaxDrawdownPct(max_drawdown, f.running_max),
         current_drawdown    |-> f.drawdown[Len(f.drawdown)],
         longest_win_streak  |-> LongestWin(df, f.streak_group),
         longest_loss_streak |-> LongestLoss(df, f.streak_group),
         current_streak      |-> f.sign[Len(f.sign)],
         symbol_stats        |-> SymbolStats(df),
         best_day            |-> IdxMax(Daily(df)),
         best_day_profit     |-> Daily(df)[IdxMax(Daily(df))],
         worst_day           |-> IdxMin(Daily(df)),
         worst_day_profit    |-> Daily(df)[IdxMin(Daily(df))],
         best_hour           |-> IdxMaxRat(Hourly(df)),
         best_hour_profit    |-> Hourly(df)[IdxMaxRat(Hourly(df))],
         equity_curve        |-> f.cumsum,
         equity_dates        |-> [i \in DOMAIN df |-> IsoFormat(df[i].open_time)],
         period_start        |-> MinOfSet({df[i].open_time : i \in DOMAIN df}),
         daily_stats         |-> DailyStats(df),
         monthly_stats       |-> MonthlyStats(df),
         period_end          |-> MaxOfSet({df[i].open_time : i \in DOMAIN df}),
         total_days          |-> (MaxOfSet({df[i].open_time : i \in DOMAIN df})
                                    - MinOfSet({df[i].open_time : i \in DOMAIN df})) \div 24,
         profit_distribution   |-> ProfitDistribution(df),
         duration_distribution |-> DurationDistribution(df)]

NoFrame == [df |-> <<>>]

\* calculate_all_analytics(trades): [frame, result].  pd.DataFrame([]) has no
\* columns, so df['open_time'] raises KeyError before any guard is reached.
calculate_all_analytics(trades_in) ==
    IF trades_in = <<>>
    THEN [frame |-> NoFrame, result |-> Raise("KeyError")]
    ELSE LET f == Locals(trades_in)
             a == BuildAnalytics(f)
         IN  IF IsExc(a.total_profit_pct)
             THEN [frame |-> f, result |-> a.total_profit_pct]
             ELSE [frame |-> f, result |-> a]

\* ------------------------------------------------------------- Trade
\* the status expression with a zero profit counted as a win
StatusOfNonNegative(profit_usd) ==
    IF profit_usd >= 0 THEN "GANADOR" ELSE "PERDEDOR"

\* 'GANADOR' if profit > 0 else ('PERDEDOR' if profit < 0 else 'BREAK_EVEN')
StatusOf(profit_usd) ==
    IF profit_usd > 0 THEN "GANADOR"
    ELSE IF profit_usd < 0 THEN "PERDEDOR" ELSE "BREAK_EVEN"

\* app/schemas/trade.py: a Trade as built by a caller of the engine
MkTrade(id, open_time, symbol, open_price, volume, profit_usd, duration) ==
    [id |-> id, open_time |-> open_time, close_time |-> open_time + 1,
     symbol |-> symbol, order_type |-> "BUY", volume |-> volume,
     open_price |-> open_price, close_price |-> open_price,
     profit_usd |-> profit_usd, profit_pct |-> [n |-> 0, d |-> 1],
     duration |-> duration, status |-> StatusOf(profit_usd)]

\* input domains of the engine's callers
ProfitValues == {-100, -50, 0, 100}

TimeValues == {9, 10}

PriceValues == {0, 1}

NoFile == [ext |-> "", rows |-> <<>>]

NoPFrame == [header_row |-> -1]

NoResult == [none |-> TRUE]

\* data/raw before the first upload: the directory does not exist
NoDir == [exists |-> FALSE, files |-> <<>>]

NoResponse == [none |-> TRUE]

NoDb == [users |-> {}, sessions |-> {}, verifications |-> {}]

\* ------------------------------------------- the engine and its caller
Init ==
    /\ pc = "build"
    /\ trades = <<>>
    /\ frame = NoFrame
    /\ result = NoResult
    /\ file = NoFile
    /\ pframe = NoPFrame
    /\ presult = NoResult
    /\ raw_dir = NoDir
    /\ response = NoResponse
    /\ db = NoDb
    /\ clock = 0
    /\ tokens = {}
    /\ calls = <<>>

\* the caller appends one more Trade to the list it will pass
AppendTrade ==
    /\ pc = "build"
    /\ Len(trades) < MaxTrades
    /\ \E t \in TimeValues, p \in PriceValues, u \in ProfitValues :
          trades' = Append(trades, MkTrade(Len(trades) + 1, t, "EURUSD", p, 1, u, 60))
    /\ UNCHANGED <<pc, frame, result, file, pframe, presult, raw_dir, response,
                   db, clock, tokens, calls>>

\* AnalyticsService.calculate_all_analytics(trades)
Compute ==
    /\ pc = "build"
    /\ LET r == calculate_all_analytics(trades)
       IN  /\ frame' = r.frame
           /\ result' = r.result
    /\ pc' = "done"
    /\ UNCHANGED <<trades, file, pframe, presult, raw_dir, response,
                   db, clock, tokens, calls>>

Next == AppendTrade \/ Compute

Spec == Init /\ [][Next]_vars

\* ---------------------------------------- the basic win/loss scenario
ScenarioProfits == <<100, -50, 200, -50, 0>>

Orderings(n) == {p \in [1..n -> 1..n] : \A i, j \in 1..n : p[i] = p[j] => i = j}

\* the five scenario trades, one per hour, handed over in any order
ScenarioInit ==
    /\ pc = "build"
    /\ \E p \in Orderings(Len(ScenarioProfits)) :
          trades = [i \in 1..Len(ScenarioProfits) |->
                       MkTrade(i, p[i], "EURUSD", 1, 1, ScenarioProfits[p[i]], 60)]
    /\ frame = NoFrame
    /\ result = NoResult
    /\ file = NoFile
    /\ pframe = NoPFrame
    /\ presult = NoResult
    /\ raw_dir = NoDir
    /\ response = NoResponse
    /\ db = NoDb
    /\ clock = 0
    /\ tokens = {}
    /\ calls = <<>>

ScenarioNext == Compute

ScenarioSpec == ScenarioInit /\ [][ScenarioNext]_vars

\* --------------------------------- a caller's list in an arbitrary order
OrderProfits == {-50, 100}

InsertAt(s, pos, t) == SubSeq(s, 1, pos) \o <<t>> \o SubSeq(s, pos + 1, Len(s))

\* the caller puts the Trade with the next id anywhere in the list it will pass
InsertTrade ==
    /\ pc = "build"
    /\ Len(trades) < MaxTrades
    /\ \E pos \in 0..Len(trades), t \in TimeValues, u \in OrderProfits :
          trades' = InsertAt(trades, pos, MkTrade(Len(trades) + 1, t, "EURUSD", 1, 1, u, 60))
    /\ UNCHANGED <<pc, frame, result, file, pframe, presult, raw_dir, response,
                   db, clock, tokens, calls>>

OrderNext == InsertTrade \/ Compute

OrderSpec == Init /\ [][OrderNext]_vars

\* ------------------------------- trades over several days and symbols
\* 09:00 on 2025-01-01, on 2025-01-02, on 2025-01-31 and on 2025-02-01
BreakdownTimes == {9, 33, 729, 753}

BreakdownSymbols == {"EURUSD", "GBPUSD"}

\* the caller appends a Trade of some day and symbol
AppendDatedTrade ==
    /\ pc = "build"
    /\ Len(trades) < MaxTrades
    /\ \E t \in BreakdownTimes, s \in BreakdownSymbols, u \in OrderProfits :
          trades' = Append(trades, MkTrade(Len(trades) + 1, t, s, 1, 1, u, 60))
    /\ UNCHANGED <<pc, frame, result, file, pframe, presult, raw_dir, response,
                   db, clock, tokens, calls>>

BreakdownNext == AppendDatedTrade \/ Compute

BreakdownSpec == Init /\ [][BreakdownNext]_vars

\* ------------------------------- trades of several profits and durations
\* profits on and off the bucket edges
EdgeProfits == {-100, 0, 100, 2000}

\* durations in minutes: a close before the open, none, a bucket edge, two days
EdgeDurations == {-30, 0, 30, 2880}

\* the caller appends a Trade of some profit and duration
AppendTimedTrade ==
    /\ pc = "build"
    /\ Len(trades) < MaxTrades
    /\ \E u \in EdgeProfits, m \in EdgeDurations :
          trades' = Append(trades, MkTrade(Len(trades) + 1, 9, "EURUSD", 1, 1, u, m))
    /\ UNCHANGED <<pc, frame, result, file, pframe, presult, raw_dir, response,
                   db, clock, tokens, calls>>

DistributionNext == AppendTimedTrade \/ Compute

DistributionSpec == Init /\ [][DistributionNext]_vars

\* ============================================= trade_parser_service.py
\* A raw table is a sequence of rows, a row a sequence of cells.  A cell is
\* text (k = "str"), a number or numeric text (k = "num"), a timestamp that
\* pd.to_datetime parses once '.' is replaced by '-' (k = "time", n = hours),
\* or empty (k = "nan").  Empty numeric and timestamp cells occur only in rows
\* whose symbol is empty too.  A number whose text is not the plain decimal
\* of its value (the digits a cut line leaves, such as 00) keeps that text in s.
Str(x) == [k |-> "str", s |-> x, n |-> 0]

Num(x) == [k |-> "num", s |-> "", n |-> x]

Time(x) == [k |-> "time", s |-> "", n |-> x]

Empty == [k |-> "nan", s |-> "", n |-> 0]

MaxPreamble == 3

MaxRows == 3

\* str.lower() on the strings of the model's files
Lower(x) ==
    CASE x \in {"Time", "TIME"} -> "time"
      [] x \in {"Symbol", "SYMBOL"} -> "symbol"
      [] x \in {"Type", "TYPE"} -> "type"
      [] x \in {"Volume", "VOLUME"} -> "volume"
      [] x \in {"Price", "PRICE"} -> "price"
      [] x \in {"Profit", "PROFIT"} -> "profit"
      [] x = "Balance" -> "balance"
      [] x = "Deals" -> "deals"
      [] x = "Trade History Report" -> "trade history report"
      [] x = "Símbolo" -> "símbolo"
      [] x = "Tipo" -> "tipo"
      [] x = "Volumen" -> "volumen"
      [] x = "Ganancias" -> "ganancias"
      [] x \in {"Buy", "BUY"} -> "buy"
      [] x \in {"Sell", "SELL"} -> "sell"
      [] x = "EURUSD" -> "eurusd"
      [] x = "GBPUSD " -> "gbpusd "
      [] x \in {".CSV"} -> ".csv"
      [] x \in {".XLSX"} -> ".xlsx"
      [] x \in {".XLS"} -> ".xls"
      [] x \in {".TXT"} -> ".txt"
      [] OTHER -> x

\* str.upper() on the order types of the model's files
Upper(x) ==
    CASE x \in {"buy", "Buy"} -> "BUY"
      [] x \in {"sell", "Sell"} -> "SELL"
      [] x = "balance" -> "BALANCE"
      [] OTHER -> x

\* str.strip()
Strip(x) ==
    CASE x = "GBPUSD " -> "GBPUSD"
      [] x = " " -> ""
      [] OTHER -> x

\* str(value) of a cell, as row.astype(str) and str(row[...]) give it
CellStr(c) ==
    CASE c.k = "str" -> c.s
      [] c.k = "num" -> ToString(c.n)
      [] c.k = "time" -> ToString(c.n) \o ":00"
      [] OTHER -> "nan"

\* ---------------------------------------------- the bytes of a .csv file
\* a timestamp as an MT5 export writes it: 2025.01.01 10:00:00
Mt5Time(t) ==
    ToString(YearOf(t)) \o "." \o Pad2(MonthNumber(t)) \o "." \o Pad2(DayOfMonth(t))
        \o " " \o Pad2(HourOf(t)) \o ":00:00"

\* the text of a cell in a line of the file (the model's files are ASCII,
\* one character is one byte)
CsvText(c) ==
    CASE c.k = "str" -> c.s
      [] c.k = "num" -> IF c.s # "" THEN c.s ELSE ToString(c.n)
      [] c.k = "time" -> Mt5Time(c.n)
      [] OTHER -> ""

RECURSIVE CsvFields(_)
CsvFields(row) ==
    IF Len(row) = 1 THEN CsvText(row[1])
    ELSE CsvText(row[1]) \o "," \o CsvFields(Tail(row))

\* a line of the file: the fields, separated by commas, and the newline; the
\* row without cells is a blank line
CsvLine(row) == IF row = <<>> THEN "\n" ELSE CsvFields(row) \o "\n"

RECURSIVE Bytes(_)
\* len(content) of the text of a table
Bytes(rows) ==
    IF rows = <<>> THEN 0 ELSE Len(CsvLine(Head(rows))) + Bytes(Tail(rows))

Digits == <<"0", "1", "2", "3", "4", "5", "6", "7", "8", "9">>

IsDigits(x) ==
    \A i \in 1..Len(x) : \E d \in DOMAIN Digits : SubSeq(x, i, i) = Digits[d]

RECURSIVE DigitsValue(_)
DigitsValue(x) ==
    IF x = "" THEN 0
    ELSE LET last == SubSeq(x, Len(x), Len(x))
         IN  10 * DigitsValue(SubSeq(x, 1, Len(x) - 1))
                + (CHOOSE d \in DOMAIN Digits : Digits[d] = last) - 1

\* the cell a reader makes of what is left of a field from character o on:
\* digits are a number, anything else is text
Fragment(c, o) ==
    LET x == SubSeq(CsvText(c), o + 1, Len(CsvText(c)))
    IN  IF ~IsDigits(x) THEN Str(x)
        ELSE IF ToString(DigitsValue(x)) = x THEN Num(DigitsValue(x))
        ELSE [k |-> "num", s |-> x, n |-> DigitsValue(x)]

RECURSIVE CutCells(_, _, _)
\* the fields of a line from byte o on, o counted from the start of field j
\* and inside the line: a field that is cut is a Fragment, a cut in front of
\* a comma leaves an empty field, a cut in front of the newline a blank line
CutCells(row, j, o) ==
    LET x == CsvText(row[j])
    IN  IF o = 0 THEN SubSeq(row, j, Len(row))
        ELSE IF o < Len(x)
        THEN <<Fragment(row[j], o)>> \o SubSeq(row, j + 1, Len(row))
        ELSE IF o = Len(x)
        THEN IF j = Len(row) THEN <<>>
             ELSE <<Empty>> \o SubSeq(row, j + 1, Len(row))
        ELSE CutCells(row, j + 1, o - Len(x) - 1)

RECURSIVE Remainder(_, _)
\* the lines of a file from byte o on
Remainder(rows, o) ==
    IF rows = <<>> THEN <<>>
    ELSE LET n == Len(CsvLine(Head(rows)))
         IN  IF o = 0 THEN rows
             ELSE IF o >= n THEN Remainder(Tail(rows), o - n)
             ELSE <<CutCells(Head(rows), 1, o)>> \o Tail(rows)

\* pd.read_csv: blank lines are skipped (skip_blank_lines), and a line with
\* fewer fields than the first is filled up with NaN
ReadCsv(rows) ==
    LET lines == SelectSeq(rows, LAMBDA row : row # <<>> /\ row # <<Empty>>)
    IN  [i \in DOMAIN lines |->
            lines[i] \o [k \in 1..(Len(lines[1]) - Len(lines[i])) |-> Empty]]

\* row.astype(str).str.lower().tolist()
RowStr(row) == {Lower(CellStr(row[i])) : i \in DOMAIN row}

IsHeaderRowAny(row) == "time" \in RowStr(row) \/ "symbol" \in RowStr(row)

IsHeaderRow(row) == "time" \in RowStr(row) /\ "symbol" \in RowStr(row)

\* the scan of df_temp.iterrows(): 0-based index of the first row holding both
\* 'time' and 'symbol', -1 when there is none
FindHeaderRow(rows) ==
    LET hits == {i \in DOMAIN rows : IsHeaderRow(rows[i])}
    IN  IF hits = {} THEN -1 ELSE MinOfSet(hits) - 1

\* pandas column labels of a header row: duplicates get .1, .2, ...; an empty
\* header cell is 'Unnamed: <position>'
Columns(header) ==
    [i \in DOMAIN header |->
        IF header[i].k = "nan" THEN "Unnamed: " \o ToString(i - 1)
        ELSE LET name == CellStr(header[i])
                 dup  == Cardinality({j \in 1..(i - 1) :
                             header[j].k # "nan" /\ CellStr(header[j]) = name})
             IN  IF dup = 0 THEN name ELSE name \o "." \o ToString(dup)]

\* pd.read_csv(path) / pd.read_excel(path, header=h): the labels come from raw
\* row h, the data from the rows below it
ReadTable(rows, h) ==
    [columns |-> Columns(rows[h + 1]),
     data    |-> SubSeq(rows, h + 2, Len(rows))]

\* column_mapping_duplicates
Rename(name) ==
    CASE name = "Time" -> "open_time"
      [] name = "Time.1" -> "close_time"
      [] name = "Price" -> "open_price"
      [] name = "Price.1" -> "close_price"
      [] name \in {"Symbol", "Símbolo"} -> "symbol"
      [] name \in {"Type", "Tipo"} -> "order_type"
      [] name \in {"Volume", "Volumen"} -> "volume"
      [] name \in {"Profit", "Ganancias"} -> "profit_usd"
      [] name \in {"Commission", "Comisión"} -> "commission"
      [] name = "Swap" -> "swap"
      [] name = "S / L" -> "sl"
      [] name = "T / P" -> "tp"
      [] name \in {"Comment", "Comente"} -> "comment"
      [] OTHER -> name

RenameColumns(columns) == [i \in DOMAIN columns |-> Rename(columns[i])]

required_columns ==
    <<"open_time", "close_time", "symbol", "order_type", "volume",
      "open_price", "close_price", "profit_usd">>

MissingFirstOnly(columns) ==
    LET miss == SelectSeq(required_columns, LAMBDA c : c \notin Range(columns))
    IN  IF miss = <<>> THEN <<>> ELSE <<miss[1]>>

\* [col for col in required_columns if col not in df.columns]
MissingColumns(columns) ==
    SelectSeq(required_columns, LAMBDA c : c \notin Range(columns))

\* row[name]
Field(columns, row, name) ==
    row[CHOOSE i \in DOMAIN columns : columns[i] = name]

\* float(value): a number or numeric text converts, an empty cell (read by
\* pandas as nan) converts to nan, other text raises ValueError
CanFloat(c) == c.k \in {"num", "nan"}

NaN == [n |-> 0, d |-> 0]

\* the value float(value) returns
Float(c) == IF c.k = "nan" THEN NaN ELSE c.n

\* pd.to_datetime(str(value).replace('.', '-')) succeeds; when it does not,
\* the raw text is handed to Trade(...), whose validation rejects it
CanDatetime(c) == c.k = "time"

\* the row is not an operation: pd.isna(symbol) or order_type not buy/sell
IsNonTradeRow(columns, row) ==
    \/ Field(columns, row, "symbol").k = "nan"
    \/ Lower(CellStr(Field(columns, row, "order_type"))) \notin {"buy", "sell"}

\* the body of the row loop raises: a float() of non-numeric text, or a Trade
\* validation error on a timestamp that did not parse
RowRaises(columns, row) ==
    \/ \E c \in {"volume", "open_price", "close_price", "profit_usd"} :
          ~CanFloat(Field(columns, row, c))
    \/ ~CanDatetime(Field(columns, row, "open_time"))
    \/ ~CanDatetime(Field(columns, row, "close_time"))

\* profit_pct with its ZeroDivisionError handler
ProfitPct(profit_usd, open_price, volume) ==
    IF Abs(open_price * volume * 100) = 0 THEN [n |-> 0, d |-> 1]
    ELSE Rat(profit_usd * 100, Abs(open_price * volume * 100))

\* profit_pct over cells: a nan price or volume makes the quotient nan, a
\* zero denominator raises ZeroDivisionError also for a nan profit
ProfitPctOf(profit_usd, open_price, volume) ==
    IF open_price.k = "nan" \/ volume.k = "nan" THEN NaN
    ELSE IF profit_usd.k = "nan"
         THEN IF Abs(open_price.n * volume.n * 100) = 0 THEN [n |-> 0, d |-> 1] ELSE NaN
         ELSE ProfitPct(profit_usd.n, open_price.n, volume.n)

\* the status expression on float(row['profit_usd']): nan > 0 and nan < 0 are
\* both false
RowStatus(profit_usd) ==
    IF profit_usd.k = "nan" THEN "BREAK_EVEN" ELSE StatusOf(profit_usd.n)

\* Trade(id=int(idx), ...) for the data row at 0-based position idx
TradeOfRow(columns, row, idx) ==
    LET open_dt    == Field(columns, row, "open_time").n
        close_dt   == Field(columns, row, "close_time").n
        profit_usd == Field(columns, row, "profit_usd")
        open_price == Field(columns, row, "open_price")
        volume     == Field(columns, row, "volume")
    IN  [id |-> idx, open_time |-> open_dt, close_time |-> close_dt,
         symbol |-> Strip(CellStr(Field(columns, row, "symbol"))),
         order_type |-> Upper(CellStr(Field(columns, row, "order_type"))),
         volume |-> Float(volume), open_price |-> Float(open_price),
         close_price |-> Float(Field(columns, row, "close_price")),
         profit_usd |-> Float(profit_usd),
         profit_pct |-> ProfitPctOf(profit_usd, open_price, volume),
         duration |-> (close_dt - open_dt) * 60,
         status |-> RowStatus(profit_usd)]

\* what the row loop does with one row: "skip" (continue), "error" (warning,
\* continue) or "trade"
RowOutcome(columns, row) ==
    IF IsNonTradeRow(columns, row) THEN "skip"
    ELSE IF RowRaises(columns, row) THEN "error"
    ELSE "trade"

\* the row loop with a handler that lets a row error end the call
RowLoopFatal(columns, data) ==
    IF \E i \in DOMAIN data : RowOutcome(columns, data[i]) = "error"
    THEN Raise("ValueError")
    ELSE [trades |-> <<>>]

\* the row loop numbering the Trades it returns 0, 1, 2, ...
RowLoopRenumbered(columns, data) ==
    LET idxs == SelectSeq([i \in DOMAIN data |-> i],
                          LAMBDA i : RowOutcome(columns, data[i]) = "trade")
    IN  [trades |-> [k \in DOMAIN idxs |->
                        TradeOfRow(columns, data[idxs[k]], k - 1)]]

\* for idx, row in df.iterrows(): ... trades.append(trade); return trades
RowLoop(columns, data) ==
    LET idxs == SelectSeq([i \in DOMAIN data |-> i],
                          LAMBDA i : RowOutcome(columns, data[i]) = "trade")
    IN  [trades |-> [k \in DOMAIN idxs |->
                        TradeOfRow(columns, data[idxs[k]], idxs[k] - 1)]]

\* Path(file_path).suffix.lower()
FileExtension(f) == Lower(f.ext)

\* the raw row the table's labels are read from: row 0 for a .csv; for a
\* spreadsheet the row found by the scan, or row 0 when the scan finds none
HeaderRow(ext, rows) ==
    IF ext = ".csv" THEN 0
    ELSE IF FindHeaderRow(rows) # -1 THEN FindHeaderRow(rows) ELSE 0

\* the length of the end-of-central-directory record of a zip archive
sizeEndCentDir == 22

\* The rows a reader gets out of the file. A workbook is a zip archive, whose
\* directory is found from its end record. The bytes of an older archive
\* behind the workbook (f.tail) are the end of that archive: fewer than
\* sizeEndCentDir of them hold no end record, zipfile finds the workbook's
\* own record in front of them and reads the workbook; with sizeEndCentDir
\* or more the file ends in the older archive's record, whose directory and
\* members are not where it says, and zipfile raises BadZipFile, as it does
\* for a file of zero bytes.
RawRows(f) ==
    IF FileExtension(f) = ".csv" THEN ReadCsv(f.rows)
    ELSE IF "tail" \in DOMAIN f /\ f.tail >= sizeEndCentDir THEN <<>>
    ELSE f.rows

\* load_trades_from_file(file_path): [pframe, presult]
load_trades_from_file(f) ==
    LET ext == FileExtension(f)
    IN  IF ext \notin {".csv", ".xlsx", ".xls"}
        THEN [pframe  |-> [header_row |-> -1],
              presult |-> [exc |-> "ValueError", unsupported |-> ext]]
        ELSE IF RawRows(f) = <<>>
        \* a file without a line to read, or no archive: read_csv raises
        \* EmptyDataError, openpyxl BadZipFile
        THEN [pframe  |-> [header_row |-> -1],
              presult |-> [exc |-> IF ext = ".csv" THEN "EmptyDataError"
                                   ELSE "BadZipFile"]]
        ELSE LET h       == HeaderRow(ext, RawRows(f))
                 df      == ReadTable(RawRows(f), h)
                 columns == RenameColumns(df.columns)
                 missing == MissingColumns(columns)
                 pf      == [header_row |-> h, columns |-> columns, data |-> df.data]
             IN  IF missing # <<>>
                 THEN [pframe  |-> pf,
                       presult |-> [exc |-> "ValueError", missing |-> missing,
                                    available |-> columns]]
                 ELSE [pframe |-> pf, presult |-> RowLoop(columns, df.data)]

\* ------------------------------------------------ the files of the model
\* file names end in one of these; a spreadsheet is a workbook archive, the
\* format the openpyxl reader opens, under a name that ends in .xlsx or .xls
Extensions == {".csv", ".xlsx", ".XLSX", ".xls", ".txt"}

HeaderRows ==
    { <<Str("Time"), Str("Symbol"), Str("Type"), Str("Volume"),
        Str("Price"), Str("Time"), Str("Price"), Str("Profit")>>,
      <<Str("Time"), Str("Símbolo"), Str("Tipo"), Str("Volumen"),
        Str("Price"), Str("Time"), Str("Price"), Str("Ganancias")>>,
      <<Str("TIME"), Str("SYMBOL"), Str("TYPE"), Str("VOLUME"),
        Str("PRICE"), Str("TIME"), Str("PRICE"), Str("PROFIT")>>,
      <<Str("Time"), Str("Symbol"), Str("Type"), Str("Volume"),
        Str("Price"), Str("Time"), Str("Price"), Str("Balance")>> }

PreambleRows ==
    { <<Str("Trade History Report"), Empty, Empty, Empty, Empty, Empty, Empty, Empty>>,
      <<Str("Time"), Str("Deals"), Empty, Empty, Empty, Empty, Empty, Empty>> }

BuyRow ==
    <<Time(9), Str("EURUSD"), Str("buy"), Num(1), Num(1), Time(10), Num(2), Num(100)>>

SellRow ==
    <<Time(10), Str("GBPUSD "), Str("Sell"), Num(1), Num(2), Time(12), Num(1), Num(-50)>>

BalanceRow ==
    <<Time(8), Empty, Str("balance"), Empty, Empty, Empty, Empty, Num(1000)>>

BadProfitRow ==
    <<Time(9), Str("EURUSD"), Str("buy"), Num(1), Num(1), Time(10), Num(2), Str("error")>>

BadTimeRow ==
    <<Str("garbage"), Str("EURUSD"), Str("sell"), Num(1), Num(1), Time(10), Num(1), Num(0)>>

\* an operation whose profit cell is empty
NanProfitRow ==
    <<Time(9), Str("EURUSD"), Str("sell"), Num(1), Num(1), Time(10), Num(1), Empty>>

\* a break-even operation whose symbol cell holds a single space
BlankSymbolRow ==
    <<Time(11), Str(" "), Str("buy"), Num(1), Num(1), Time(12), Num(1), Num(0)>>

DataRows == {BuyRow, SellRow, BalanceRow, BadProfitRow, BadTimeRow, BlankSymbolRow,
              NanProfitRow}

\* ----------------------------------------- the parser and its caller
ParseInit ==
    /\ pc = "preamble"
    /\ file \in {[ext |-> e, rows |-> <<>>] : e \in Extensions}
    /\ pframe = NoPFrame
    /\ presult = NoResult
    /\ raw_dir = NoDir
    /\ response = NoResponse
    /\ db = NoDb
    /\ clock = 0
    /\ tokens = {}
    /\ calls = <<>>
    /\ trades = <<>>
    /\ frame = NoFrame
    /\ result = NoResult

\* the export starts with a line that is not the header
AddPreambleRow ==
    /\ pc = "preamble"
    /\ Len(file.rows) < MaxPreamble
    /\ \E r \in PreambleRows : file' = [file EXCEPT !.rows = Append(@, r)]
    /\ UNCHANGED <<pc, pframe, presult, trades, frame, result, raw_dir, response,
                   db, clock, tokens, calls>>

\* the header line of the export
AddHeaderRow ==
    /\ pc = "preamble"
    /\ \E h \in HeaderRows : file' = [file EXCEPT !.rows = Append(@, h)]
    /\ pc' = "rows"
    /\ UNCHANGED <<pframe, presult, trades, frame, result, raw_dir, response,
                   db, clock, tokens, calls>>

\* one more line below the header
AddDataRow ==
    /\ pc = "rows"
    /\ \E n \in 1..Len(file.rows) :
          /\ file.rows[n] \in HeaderRows
          /\ \A m \in 1..(n - 1) : file.rows[m] \notin HeaderRows
          /\ Len(file.rows) - n < MaxRows
    /\ \E r \in DataRows : file' = [file EXCEPT !.rows = Append(@, r)]
    /\ UNCHANGED <<pc, pframe, presult, trades, frame, result, raw_dir, response,
                   db, clock, tokens, calls>>

\* TradeParserService.load_trades_from_file(file_path)
Load ==
    /\ pc = "rows"
    /\ LET r == load_trades_from_file(file)
       IN  /\ pframe' = r.pframe
           /\ presult' = r.presult
    /\ pc' = "done"
    /\ UNCHANGED <<file, trades, frame, result, raw_dir, response,
                   db, clock, tokens, calls>>

ParseNext == AddPreambleRow \/ AddHeaderRow \/ AddDataRow \/ Load

ParseSpec == ParseInit /\ [][ParseNext]_vars

\* ------------------------------------------------- the HTTP endpoints
\* upload names: f.endswith('.csv') is what the read endpoints look for
UploadNames ==
    { [name |-> "a.csv", ext |-> ".csv"],
      [name |-> "b.csv", ext |-> ".csv"],
      [name |-> "c.xlsx", ext |-> ".xlsx"] }

EnglishHeader ==
    <<Str("Time"), Str("Symbol"), Str("Type"), Str("Volume"),
      Str("Price"), Str("Time"), Str("Price"), Str("Profit")>>

NoProfitHeader ==
    <<Str("Time"), Str("Symbol"), Str("Type"), Str("Volume"),
      Str("Price"), Str("Time"), Str("Price"), Str("Balance")>>

\* upload contents: two well-formed exports and one without a profit column
UploadTables ==
    { <<EnglishHeader, BuyRow>>,
      <<EnglishHeader, BuyRow, SellRow>>,
      <<NoProfitHeader, BuyRow>> }

\* TradeParserService.load_trades_from_csv(path): the class defines
\* load_trades_from_file and validate_trade_data only, so the attribute
\* lookup raises AttributeError before any file is read
load_trades_from_csv(f) == Raise("AttributeError")

\* A stored file is the rows of its text, which stand for its bytes (Bytes):
\* a file opened with 'wb' is empty, and a write through a handle that was
\* opened earlier lands at offset 0 and replaces as many bytes of what is
\* there by then as the content has. Of a workbook the model keeps the table
\* and the number of bytes of an older archive that lie behind it (tail);
\* the length of an archive is not modelled byte for byte, it grows with
\* the table as the length of the table's text does.
OtherFiles(dir, name) == SelectSeq(dir.files, LAMBDA g : g.name # name)

StoredFile(dir, name) ==
    LET same == SelectSeq(dir.files, LAMBDA g : g.name = name)
    IN  IF same = <<>> THEN [rows |-> <<>>, tail |-> 0] ELSE same[1]

\* os.path.getsize of a stored file
FileBytes(g) == Bytes(g.rows) + g.tail

\* os.makedirs(upload_dir, exist_ok=True); open(file_path, 'wb'): the file is
\* created or truncated, and is the last modified
OpenFile(dir, f) ==
    [exists |-> TRUE,
     files  |-> Append(OtherFiles(dir, f.name), [f EXCEPT !.rows = <<>>, !.tail = 0])]

\* a handle that is closed without the content having been written
StoreNothing(dir, f) ==
    [exists |-> TRUE,
     files  |-> Append(OtherFiles(dir, f.name),
                       [f EXCEPT !.rows = StoredFile(dir, f.name).rows,
                                 !.tail = StoredFile(dir, f.name).tail])]

\* f.write(content) on the bytes old: len(content) bytes from offset 0 are
\* the content, the bytes behind them stay. In a .csv these are the lines
\* of old from that byte on, the first of them cut where the content ends;
\* behind a workbook they are the end of a longer archive.
Overlay(f, old) ==
    IF FileExtension(f) = ".csv"
    THEN [f EXCEPT !.rows = f.rows \o Remainder(old.rows, Bytes(f.rows)),
                   !.tail = 0]
    ELSE [f EXCEPT !.tail = IF FileBytes(old) > Bytes(f.rows)
                            THEN FileBytes(old) - Bytes(f.rows) ELSE 0]

\* f.write(content) and the close of the with block: the content is written
\* from offset 0, and the file is the last modified
StoreFile(dir, f) ==
    [exists |-> TRUE,
     files  |-> Append(OtherFiles(dir, f.name),
                       Overlay(f, StoredFile(dir, f.name)))]

\* [f for f in os.listdir(raw_dir) if f.endswith('.csv')]
CsvFiles(dir) == SelectSeq(dir.files, LAMBDA g : g.ext = ".csv")

\* max(csv paths, key=os.path.getmtime)
LatestFile(csv_files) == csv_files[Len(csv_files)]

\* the opening statements of a read handler that answer an empty trade list
\* when nothing is stored
LatestTradesOrNone(dir) ==
    IF ~dir.exists \/ CsvFiles(dir) = <<>> THEN [trades |-> <<>>]
    ELSE load_trades_from_csv(LatestFile(CsvFiles(dir)))

\* the opening statements of every read handler: list data/raw, pick the
\* latest .csv, parse it
LatestTrades(dir) ==
    IF ~dir.exists THEN Raise("FileNotFoundError")
    ELSE IF CsvFiles(dir) = <<>>
         THEN [exc |-> "HTTPException", status_code |-> 404]
         ELSE load_trades_from_csv(LatestFile(CsvFiles(dir)))

\* except Exception as e: raise HTTPException(status_code=..., detail=str(e))
Failed(status_code, e) == [status_code |-> status_code, detail |-> e]

Ok(body) == [status_code |-> 200, body |-> body]

\* POST /upload-trades from the return of `await file.read()` on:
\* [raw_dir, response]
upload_trades_file(dir, f) ==
    LET stored == StoreFile(dir, f)
        r      == load_trades_from_csv(f)
    IN  [raw_dir  |-> stored,
         response |-> IF IsExc(r) THEN Failed(400, r)
                      ELSE Ok([success |-> TRUE, trades_count |-> Len(r.trades),
                               file_path |-> f.name])]

\* GET /trades without filters or paging
get_trades(dir) ==
    LET r == LatestTrades(dir)
    IN  IF IsExc(r) THEN Failed(500, r) ELSE Ok(r.trades)

\* the Analytics of the latest file, or the exception on the way to it
LatestAnalytics(dir) ==
    LET r == LatestTrades(dir)
    IN  IF IsExc(r) THEN r ELSE calculate_all_analytics(r.trades).result

\* GET /summary (the value of validate_trade_data is not used)
get_analytics_summary(dir) ==
    LET a == LatestAnalytics(dir)
    IN  IF IsExc(a) THEN Failed(500, a) ELSE Ok(a)

\* GET /timeseries
get_timeseries(dir) ==
    LET a == LatestAnalytics(dir)
    IN  IF IsExc(a) THEN Failed(500, a)
        ELSE Ok([dates |-> a.equity_dates, values |-> a.equity_curve])

\* GET /by-symbol
get_symbol_stats(dir) ==
    LET a == LatestAnalytics(dir)
    IN  IF IsExc(a) THEN Failed(500, a)
        ELSE Ok([symbols |-> a.symbol_stats,
                 total_symbols |-> Cardinality(DOMAIN a.symbol_stats)])

\* the handlers that may be suspended at an await at the same time
MaxCalls == 2

Answer(request, r) == [request |-> request] @@ r

ApiInit ==
    /\ pc = "serve"
    /\ raw_dir = NoDir
    /\ response = NoResponse
    /\ db = NoDb
    /\ clock = 0
    /\ tokens = {}
    /\ calls = <<>>
    /\ trades = <<>>
    /\ frame = NoFrame
    /\ result = NoResult
    /\ file = NoFile
    /\ pframe = NoPFrame
    /\ presult = NoResult

\* POST /upload-trades up to `content = await file.read()`: the directory
\* and the empty file exist, the handler is suspended with the file open
OpenUpload ==
    /\ Len(calls) < MaxCalls
    /\ \E u \in UploadNames, rows \in UploadTables :
          LET f == [name |-> u.name, ext |-> u.ext, rows |-> rows, tail |-> 0]
          IN  /\ raw_dir' = OpenFile(raw_dir, f)
              /\ calls' = Append(calls, [pc |-> "file.read", file |-> f])
    /\ UNCHANGED <<pc, trades, frame, result, file, pframe, presult, response,
                   db, clock, tokens>>

WithoutCall(i) == [k \in 1..(Len(calls) - 1) |-> IF k < i THEN calls[k] ELSE calls[k + 1]]

\* a suspended upload resumes: it writes, closes, parses and answers
UploadTrades ==
    /\ \E i \in DOMAIN calls :
          LET r == upload_trades_file(raw_dir, calls[i].file)
          IN  /\ calls[i].pc = "file.read"
              /\ raw_dir' = r.raw_dir
              /\ response' = Answer("POST /upload-trades", r.response)
                                @@ [file |-> calls[i].file]
              /\ calls' = WithoutCall(i)
    /\ UNCHANGED <<pc, trades, frame, result, file, pframe, presult,
                   db, clock, tokens>>

GetTrades ==
    /\ response' = Answer("GET /trades", get_trades(raw_dir))
    /\ UNCHANGED <<pc, trades, frame, result, file, pframe, presult, raw_dir,
                   db, clock, tokens, calls>>

GetSummary ==
    /\ response' = Answer("GET /summary", get_analytics_summary(raw_dir))
    /\ UNCHANGED <<pc, trades, frame, result, file, pframe, presult, raw_dir,
                   db, clock, tokens, calls>>

GetTimeseries ==
    /\ response' = Answer("GET /timeseries", get_timeseries(raw_dir))
    /\ UNCHANGED <<pc, trades, frame, result, file, pframe, presult, raw_dir,
                   db, clock, tokens, calls>>

GetBySymbol ==
    /\ response' = Answer("GET /by-symbol", get_symbol_stats(raw_dir))
    /\ UNCHANGED <<pc, trades, frame, result, file, pframe, presult, raw_dir,
                   db, clock, tokens, calls>>

ApiNext == OpenUpload \/ UploadTrades \/ GetTrades \/ GetSummary \/ GetTimeseries \/ GetBySymbol

ApiSpec == ApiInit /\ [][ApiNext]_vars

\* ============================================== app/utils/security.py
\* Times are minutes on the clock of utcnow(). Strings that reach a client
\* (tokens, codes) are records, so that a reset token stored as a
\* verification code can be compared with a six-digit code.
ACCESS_TOKEN_EXPIRE_MINUTES == 10080

ResetTokenMinutes == 60

VerificationMinutes == 15

None == [none |-> TRUE]

IsNone(x) == "none" \in DOMAIN x

\* pwd_context.hash: the salt is left out, a hash is what verifies against it
hash_password(password) == [bcrypt |-> password]

verify_password(plain_password, hashed_password) ==
    hashed_password.bcrypt = plain_password

\* jwt.encode is a function of the payload: equal payloads, equal tokens
create_access_token(data, now) ==
    LET expire == now + ACCESS_TOKEN_EXPIRE_MINUTES
    IN  [token |-> data @@ [exp |-> expire], expires_at |-> expire]

\* a string that is no token of this server: jwt.decode raises PyJWTError
Forged == [forged |-> TRUE]

\* jwt.decode: the signature, then exp against the clock (expired when exp <= now)
jwt_decode(token, now) ==
    IF "exp" \in DOMAIN token /\ token.exp > now THEN token ELSE None

verify_token(token, now) ==
    LET payload == jwt_decode(token, now)
    IN  IF IsNone(payload) THEN None
        ELSE IF ~ {"sub", "email"} \subseteq DOMAIN payload THEN None
        ELSE payload

decode_token(token, now) == jwt_decode(token, now)

\* six random digits
Codes == {[digits |-> "111111"], [digits |-> "222222"]}

create_reset_token(email, now) ==
    LET expire == now + ResetTokenMinutes
    IN  [token      |-> [email |-> email, type |-> "password_reset", exp |-> expire],
         expires_at |-> expire]

\* ======================================== app/services/auth_service.py
\* A handler runs from one await to the next without interruption, and every
\* await is one operation on a collection. A handler is therefore a start
\* (the request up to and including its first operation, and the code that
\* follows it) and a resume for each later await; a handler that is
\* suspended waits in calls with the await it is about to run (pc) and its
\* local variables. An operator takes the collections d and what it needs,
\* and either answers (Replies) or suspends (Suspends).
Emails == {"ana@x.io", "bob@x.io"}

\* the address and the password of the sign-ups
SignUpEmails == {"ana@x.io"}

SignUpPasswords == {"password1"}

\* the code generate_verification_code draws at a sign-up
SignUpCodes == {[digits |-> "111111"]}

Passwords == {"password1", "password2"}

\* HTTPException(detail=...) and the message of a success body
Detail(message) == [detail |-> message]

Replies(d, status_code, body) ==
    [db |-> d, response |-> [status_code |-> status_code, body |-> body]]

Suspends(d, call) == [db |-> d, call |-> call]

Suspended(out) == "call" \in DOMAIN out

UsersByEmail(d, email) == {u \in d.users : u.email = email}

\* find_one: the first match in insertion order, None without a match
FirstUser(S) ==
    IF S = {} THEN None ELSE CHOOSE u \in S : \A v \in S : u.id <= v.id

get_user_by_email(d, email) == FirstUser(UsersByEmail(d, email))

get_user_by_id(d, user_id) == FirstUser({u \in d.users : u.id = user_id})

NewUser(d, user_data) ==
    [id             |-> Cardinality(d.users) + 1,
     email          |-> user_data.email,
     password_hash  |-> hash_password(user_data.password),
     role           |-> "user",
     email_verified |-> FALSE]

\* users.insert_one without the index of create_indexes
InsertUserUnindexed(d, user_data) ==
    [db |-> [d EXCEPT !.users = @ \cup {NewUser(d, user_data)}],
     value |-> NewUser(d, user_data)]

\* users.insert_one under the unique index on email (database.py)
InsertUser(d, user_data) ==
    IF UsersByEmail(d, user_data.email) # {}
    THEN [db |-> d, exc |-> "DuplicateKeyError"]
    ELSE [db |-> [d EXCEPT !.users = @ \cup {NewUser(d, user_data)}],
          value |-> NewUser(d, user_data)]

UserResponse(user) ==
    [id |-> user.id, email |-> user.email, role |-> user.role,
     email_verified |-> user.email_verified]

SessionResponse(user, token, expires_at) ==
    [user |-> UserResponse(user), token |-> token, expires_at |-> expires_at]

\* _create_verification, entered with call.identifier and call.code: at
\* pc = "verifications.delete_many" the earlier documents of the identifier
\* are deleted and the new document is built (its expiry from the clock of
\* that moment); at pc = "verifications.insert_one" it is inserted under the
\* _id id, and the method returns
create_verification(d, call, now, id) ==
    IF call.pc = "verifications.delete_many"
    THEN Suspends([d EXCEPT !.verifications =
                      {v \in @ : v.identifier # call.identifier}],
                  [call EXCEPT !.pc = "verifications.insert_one"]
                      @@ [expires_at |-> now + VerificationMinutes])
    ELSE [db |-> [d EXCEPT !.verifications = @ \cup
                     {[id         |-> id,
                       identifier |-> call.identifier,
                       code       |-> call.code,
                       expires_at |-> call.expires_at]}],
          value |-> call.code]

\* POST /sign-up, create_user up to its insert_one: 400 for the ValueError
sign_up(d, user_data, code) ==
    IF ~ IsNone(get_user_by_email(d, user_data.email))
    THEN Replies(d, 400, Detail("ValueError"))
    ELSE Suspends(d, [pc         |-> "users.insert_one",
                      identifier |-> user_data.email,
                      code       |-> code])

\* create_user from its insert_one on: 500 for any other exception
sign_up_resume(d, call, now, id) ==
    IF call.pc = "users.insert_one"
    THEN LET inserted == InsertUser(d, call.args)
         IN  IF IsExc(inserted) THEN Replies(inserted.db, 500, Detail(inserted.exc))
             ELSE Suspends(inserted.db,
                           [call EXCEPT !.pc = "verifications.delete_many"]
                               @@ [user |-> UserResponse(inserted.value)])
    ELSE LET made == create_verification(d, call, now, id)
         IN  IF Suspended(made) THEN made
             ELSE Replies(made.db, 201, [user |-> call.user, code |-> made.value])

\* authenticate_user that looks the user up and skips verify_password
authenticate_user_by_email_only(d, login_data) ==
    get_user_by_email(d, login_data.email)

authenticate_user(d, login_data) ==
    LET user_doc == get_user_by_email(d, login_data.email)
    IN  IF IsNone(user_doc) THEN None
        ELSE IF ~ verify_password(login_data.password, user_doc.password_hash) THEN None
        ELSE user_doc

\* POST /sign-in: authenticate_user, the checks of the endpoint, and
\* create_session up to its insert_one, with the token already made
sign_in(d, login_data, now) ==
    LET user == authenticate_user(d, login_data)
        made == create_access_token(
                    [sub |-> user.id, email |-> user.email, role |-> user.role], now)
    IN  IF IsNone(user) THEN Replies(d, 401, Detail("Credenciales invalidas"))
        ELSE IF ~ user.email_verified THEN Replies(d, 403, Detail("Email no verificado"))
        ELSE Suspends(d, [pc          |-> "sessions.insert_one",
                          user        |-> user,
                          session_doc |-> [user_id    |-> user.id,
                                           token      |-> made.token,
                                           expires_at |-> made.expires_at]])

SessionsByToken(d, token) == {s \in d.sessions : s.token = token}

\* sessions.insert_one under the unique index on token (database.py)
InsertSession(d, session_doc) ==
    IF SessionsByToken(d, session_doc.token) # {}
    THEN [db |-> d, exc |-> "DuplicateKeyError"]
    ELSE [db |-> [d EXCEPT !.sessions = @ \cup {session_doc}], value |-> session_doc]

\* create_session from its insert_one on; the exception is not caught: 500
sign_in_resume(d, call) ==
    LET inserted == InsertSession(d, call.session_doc)
    IN  IF IsExc(inserted) THEN Replies(inserted.db, 500, Detail(inserted.exc))
        ELSE Replies(inserted.db, 200,
                     SessionResponse(call.user, call.session_doc.token,
                                     call.session_doc.expires_at))

\* delete_one({"token"}); True when a document was deleted
delete_session(d, token) ==
    [db    |-> [d EXCEPT !.sessions = @ \ SessionsByToken(d, token)],
     value |-> SessionsByToken(d, token) # {}]

\* the Authorization header: absent, or "Bearer " followed by a token
NoHeader == [absent |-> TRUE]

Bearer(token) == [bearer |-> token]

HasBearer(authorization) == "bearer" \in DOMAIN authorization

\* POST /sign-out: one await
sign_out(d, authorization) ==
    LET deleted == delete_session(d, authorization.bearer)
    IN  IF ~ HasBearer(authorization) THEN Replies(d, 401, Detail("No autorizado"))
        ELSE IF ~ deleted.value THEN Replies(deleted.db, 404, Detail("Sesion no encontrada"))
        ELSE Replies(deleted.db, 200, Detail("Sesion cerrada exitosamente"))

\* get_current_user, and get_session up to its sessions.find_one: the header
\* and verify_token, which reads the clock before the first await
get_current_user(d, authorization, now) ==
    LET token_payload == verify_token(authorization.bearer, now)
    IN  IF ~ HasBearer(authorization) THEN Replies(d, 401, Detail("No autorizado"))
        ELSE IF IsNone(token_payload) THEN Replies(d, 401, Detail("Token invalido o expirado"))
        ELSE Suspends(d, [pc |-> "sessions.find_one", token_payload |-> token_payload])

\* sessions.delete_many({"expires_at": {"$lt": utcnow}}) and its count; the
\* filter is built, and utcnow() read, before the operation is awaited
cleanup_expired_sessions(d, utcnow) ==
    [db    |-> [d EXCEPT !.sessions = {s \in @ : ~ (s.expires_at < utcnow)}],
     value |-> Cardinality({s \in d.sessions : s.expires_at < utcnow})]

\* get_session from sessions.find_one on (an expired session is deleted, a
\* live one leads to get_user_by_id), and the endpoint behind the dependency:
\* GET /users/me returns the user, DELETE /sessions/cleanup asks for an admin
\* and suspends at delete_many with the filter it has built (utcnow)
get_current_user_resume(d, call, now) ==
    LET user        == get_user_by_id(d, call.token_payload.sub)
        found       == SessionsByToken(d, call.args.bearer)
        session_doc == CHOOSE s \in found : TRUE
    IN  IF call.pc = "sessions.find_one"
        THEN IF found = {} THEN Replies(d, 401, Detail("Token invalido o expirado"))
             ELSE IF session_doc.expires_at < now
                  THEN Suspends(d, [call EXCEPT !.pc = "sessions.delete_one"])
             ELSE Suspends(d, [call EXCEPT !.pc = "users.find_one"])
        ELSE IF call.pc = "sessions.delete_one"
        THEN Replies(delete_session(d, call.args.bearer).db, 401, Detail("Token invalido o expirado"))
        ELSE IF call.pc = "sessions.delete_many"
        THEN Replies(cleanup_expired_sessions(d, call.utcnow).db, 200,
                     [deleted_count |-> cleanup_expired_sessions(d, call.utcnow).value])
        ELSE IF IsNone(user) THEN Replies(d, 401, Detail("Token invalido o expirado"))
        ELSE IF call.request = "GET /users/me" THEN Replies(d, 200, UserResponse(user))
        ELSE IF user.role # "admin" THEN Replies(d, 403, Detail("Acceso denegado"))
        ELSE Suspends(d, [utcnow |-> now] @@ [call EXCEPT !.pc = "sessions.delete_many"])

VerificationsFor(d, identifier, code) ==
    {v \in d.verifications : v.identifier = identifier /\ v.code = code}

\* POST /verify-email, verify_email up to get_user_by_email; verification is
\* what verifications.find_one returned, None or a matching document
verify_email(d, verify_data, verification, now) ==
    IF IsNone(verification) THEN Replies(d, 400, Detail("Codigo invalido o expirado"))
    ELSE IF verification.expires_at < now
         THEN Replies(d, 400, Detail("Codigo invalido o expirado"))
    ELSE Suspends(d, [pc |-> "users.find_one", verification |-> verification])

update_user_verified(d, user_id) ==
    [d EXCEPT !.users =
        {IF u.id = user_id THEN [u EXCEPT !.email_verified = TRUE] ELSE u : u \in @}]

\* verify_email from get_user_by_email on: update_user_verified, then
\* verifications.delete_one({"_id"})
verify_email_resume(d, call) ==
    LET user == get_user_by_email(d, call.args.email)
    IN  IF call.pc = "users.find_one"
        THEN IF IsNone(user) THEN Replies(d, 400, Detail("Codigo invalido o expirado"))
             ELSE Suspends(d, [call EXCEPT !.pc = "users.update_one"] @@ [user |-> user])
        ELSE IF call.pc = "users.update_one"
        THEN Suspends(update_user_verified(d, call.user.id),
                      [call EXCEPT !.pc = "verifications.delete_one"])
        ELSE Replies([d EXCEPT !.verifications =
                         {v \in @ : v.id # call.verification.id}],
                     200, Detail("Email verificado exitosamente"))

\* POST /resend-verification up to _create_verification: 400 for an unknown
\* or an already verified email
resend_verification(d, email, code) ==
    LET user == get_user_by_email(d, email)
    IN  IF IsNone(user) THEN Replies(d, 400, Detail("No se pudo reenviar el codigo"))
        ELSE IF user.email_verified
             THEN Replies(d, 400, Detail("No se pudo reenviar el codigo"))
        ELSE Suspends(d, [pc         |-> "verifications.delete_many",
                          identifier |-> email,
                          code       |-> code])

resend_verification_resume(d, call, now, id) ==
    LET made == create_verification(d, call, now, id)
    IN  IF Suspended(made) THEN made ELSE Replies(made.db, 200, made.value)

\* POST /forgot-password up to _create_verification, the reset token made;
\* the answer is always 200, its body stands for the mail: None, or the token
forgot_password(d, email, now) ==
    LET user  == get_user_by_email(d, email)
        reset == create_reset_token(user.email, now)
    IN  IF IsNone(user) THEN Replies(d, 200, None)
        ELSE Suspends(d, [pc         |-> "verifications.delete_many",
                          identifier |-> user.email,
                          code       |-> reset.token])

forgot_password_resume(d, call, now, id) ==
    LET made == create_verification(d, call, now, id)
    IN  IF Suspended(made) THEN made ELSE Replies(made.db, 200, made.value)

\* POST /reset-password up to update_user_password
reset_password(d, request, now) ==
    LET payload == decode_token(request.token, now)
        user    == get_user_by_email(d, payload.email)
    IN  IF IsNone(payload) THEN Replies(d, 400, Detail("Token invalido o expirado"))
        ELSE IF ~ ("type" \in DOMAIN payload /\ payload.type = "password_reset")
             THEN Replies(d, 400, Detail("Token invalido o expirado"))
        ELSE IF "email" \notin DOMAIN payload
             THEN Replies(d, 400, Detail("Token invalido o expirado"))
        ELSE IF IsNone(user) THEN Replies(d, 400, Detail("Token invalido o expirado"))
        ELSE Suspends(d, [pc |-> "users.update_one", user |-> user])

\* modified_count > 0: the salted hash and updated_at always change the document
update_user_password(d, user_id, new_password) ==
    [db    |-> [d EXCEPT !.users =
                   {IF u.id = user_id
                    THEN [u EXCEPT !.password_hash = hash_password(new_password)]
                    ELSE u : u \in @}],
     value |-> \E u \in d.users : u.id = user_id]

\* reset_password from update_user_password on: the new hash, then
\* sessions.delete_many({"user_id"})
reset_password_resume(d, call) ==
    LET updated == update_user_password(d, call.user.id, call.args.new_password)
    IN  IF call.pc = "users.update_one"
        THEN IF updated.value
             THEN Suspends(updated.db, [call EXCEPT !.pc = "sessions.delete_many"])
             ELSE Replies(updated.db, 400, Detail("Token invalido o expirado"))
        ELSE Replies([d EXCEPT !.sessions = {s \in @ : s.user_id # call.user.id}],
                     200, Detail("Password actualizado exitosamente"))

\* ------------------------------------------------ the auth router served
MaxTokens == 2

\* the instants at which requests arrive: each expiry is passed by one of them
Instants == {0, 62, 10082}

Headers == {NoHeader, Bearer(Forged)} \cup {Bearer(t) : t \in tokens}

AuthInit ==
    /\ pc = "auth"
    /\ db = NoDb
    /\ clock = 0
    /\ tokens = {}
    /\ calls = <<>>
    /\ raw_dir = NoDir
    /\ response = NoResponse
    /\ trades = <<>>
    /\ frame = NoFrame
    /\ result = NoResult
    /\ file = NoFile
    /\ pframe = NoPFrame
    /\ presult = NoResult

\* the _id of the next verification document: the lowest one that no stored
\* document and no suspended handler holds
HeldIds ==
    {v.id : v \in db.verifications} \cup
    {calls[i].verification.id :
        i \in {j \in DOMAIN calls : "verification" \in DOMAIN calls[j]}}

NextId == CHOOSE n \in 1..(Cardinality(HeldIds) + 1) : n \notin HeldIds

\* the handler answers: the exchange is the last one, tokens reach the client
Answers(request, args, out, handed) ==
    /\ Cardinality(tokens \cup handed) <= MaxTokens
    /\ db' = out.db
    /\ tokens' = tokens \cup handed
    /\ response' = [request |-> request, args |-> args] @@ out.response

\* a request arrives and runs to its answer or to its second await
Starts(request, args, out, handed) ==
    /\ IF Suspended(out)
       THEN /\ Len(calls) < MaxCalls
            /\ db' = out.db
            /\ calls' = Append(calls, [request |-> request, args |-> args] @@ out.call)
            /\ UNCHANGED <<tokens, response>>
       ELSE Answers(request, args, out, handed) /\ calls' = calls
    /\ UNCHANGED <<pc, trades, frame, result, file, pframe, presult, raw_dir, clock>>

\* suspended handler i runs to its answer or to its next await
Resumes(i, out, handed) ==
    /\ i \in DOMAIN calls
    /\ IF Suspended(out)
       THEN /\ db' = out.db
            /\ calls' = [calls EXCEPT ![i] = out.call]
            /\ UNCHANGED <<tokens, response>>
       ELSE /\ Answers(calls[i].request, calls[i].args, out, handed)
            /\ calls' = WithoutCall(i)
    /\ UNCHANGED <<pc, trades, frame, result, file, pframe, presult, raw_dir, clock>>

Suspension(request) == {i \in DOMAIN calls : calls[i].request = request}

SignUpWith(user_data, code) ==
    Starts("POST /sign-up", user_data, sign_up(db, user_data, code), {})

SignUp ==
    \E email \in SignUpEmails, password \in SignUpPasswords, code \in SignUpCodes :
        SignUpWith([email |-> email, password |-> password], code)

SignUpResumes(i) ==
    /\ i \in Suspension("POST /sign-up")
    /\ Resumes(i, sign_up_resume(db, calls[i], clock, NextId), {})

SignUpResume == \E i \in DOMAIN calls : SignUpResumes(i)

SignInWith(login_data) ==
    Starts("POST /sign-in", login_data, sign_in(db, login_data, clock), {})

SignIn ==
    \E email \in Emails, password \in Passwords :
        SignInWith([email |-> email, password |-> password])

SignInResumes(i) ==
    /\ i \in Suspension("POST /sign-in")
    /\ LET out == sign_in_resume(db, calls[i])
       IN  Resumes(i, out, IF out.response.status_code = 200
                           THEN {out.response.body.token} ELSE {})

SignInResume == \E i \in DOMAIN calls : SignInResumes(i)

SignOutWith(authorization) ==
    Starts("POST /sign-out", authorization, sign_out(db, authorization), {})

SignOut == \E authorization \in Headers : SignOutWith(authorization)

GetMeWith(authorization) ==
    Starts("GET /users/me", authorization, get_current_user(db, authorization, clock), {})

GetMe == \E authorization \in Headers : GetMeWith(authorization)

GetMeResumes(i) ==
    /\ i \in Suspension("GET /users/me")
    /\ Resumes(i, get_current_user_resume(db, calls[i], clock), {})

GetMeResume == \E i \in DOMAIN calls : GetMeResumes(i)

Cleanup ==
    \E authorization \in Headers :
        Starts("DELETE /sessions/cleanup", authorization,
               get_current_user(db, authorization, clock), {})

CleanupResume ==
    \E i \in Suspension("DELETE /sessions/cleanup") :
        Resumes(i, get_current_user_resume(db, calls[i], clock), {})

\* verifications.find_one returns any of the documents that match
VerifyEmailWith(verify_data) ==
    \E verification \in
            VerificationsFor(db, verify_data.email, verify_data.code) \cup {None} :
        /\ IsNone(verification) <=>
               VerificationsFor(db, verify_data.email, verify_data.code) = {}
        /\ Starts("POST /verify-email", verify_data,
                  verify_email(db, verify_data, verification, clock), {})

VerifyEmail ==
    \E email \in Emails, code \in Codes :
        VerifyEmailWith([email |-> email, code |-> code])

VerifyEmailResumes(i) ==
    /\ i \in Suspension("POST /verify-email")
    /\ Resumes(i, verify_email_resume(db, calls[i]), {})

VerifyEmailResume == \E i \in DOMAIN calls : VerifyEmailResumes(i)

ResendVerification ==
    \E email \in Emails, code \in Codes :
        Starts("POST /resend-verification", [email |-> email],
               resend_verification(db, email, code), {})

ResendVerificationResume ==
    \E i \in Suspension("POST /resend-verification") :
        Resumes(i, resend_verification_resume(db, calls[i], clock, NextId), {})

ForgotPassword ==
    \E email \in Emails :
        Starts("POST /forgot-password", [email |-> email],
               forgot_password(db, email, clock), {})

ForgotPasswordResume ==
    \E i \in Suspension("POST /forgot-password") :
        LET out == forgot_password_resume(db, calls[i], clock, NextId)
        IN  Resumes(i, out, IF Suspended(out) THEN {} ELSE {out.response.body})

ResetPasswordWith(request) ==
    Starts("POST /reset-password", request, reset_password(db, request, clock), {})

ResetPassword ==
    \E token \in tokens \cup {Forged}, new_password \in Passwords :
        ResetPasswordWith([token |-> token, new_password |-> new_password])

ResetPasswordResumes(i) ==
    /\ i \in Suspension("POST /reset-password")
    /\ Resumes(i, reset_password_resume(db, calls[i]), {})

ResetPasswordResume == \E i \in DOMAIN calls : ResetPasswordResumes(i)

\* time passes between two steps
Advance ==
    /\ \E t \in Instants : t > clock /\ clock' = t
    /\ UNCHANGED <<pc, trades, frame, result, file, pframe, presult, raw_dir, response,
                   db, tokens, calls>>

AuthNext ==
    \/ SignUp \/ SignUpResume \/ SignIn \/ SignInResume \/ SignOut
    \/ GetMe \/ GetMeResume \/ Cleanup \/ CleanupResume
    \/ VerifyEmail \/ VerifyEmailResume
    \/ ResendVerification \/ ResendVerificationResume
    \/ ForgotPassword \/ ForgotPasswordResume
    \/ ResetPassword \/ ResetPasswordResume
    \/ Advance

\* the whole router; the specifications after it keep to the handlers that
\* read or write the collections their properties are about
AuthSpec == AuthInit /\ [][AuthNext]_vars

\* the handlers that read or write sessions, with those a sign-in needs
SessionNext ==
    \/ SignUp \/ SignUpResume \/ VerifyEmail \/ VerifyEmailResume
    \/ SignIn \/ SignInResume \/ SignOut
    \/ GetMe \/ GetMeResume \/ Cleanup \/ CleanupResume
    \/ Advance

SessionSpec == AuthInit /\ [][SessionNext]_vars

\* the handlers that change a password or need one
ResetNext ==
    \/ SignUp \/ SignUpResume \/ VerifyEmail \/ VerifyEmailResume
    \/ SignIn \/ SignInResume
    \/ ForgotPassword \/ ForgotPasswordResume
    \/ ResetPassword \/ ResetPasswordResume
    \/ Advance

ResetSpec == AuthInit /\ [][ResetNext]_vars

\* the handlers that read or write users' emails and verifications
VerificationNext ==
    \/ SignUp \/ SignUpResume \/ VerifyEmail \/ VerifyEmailResume
    \/ ResendVerification \/ ResendVerificationResume
    \/ ForgotPassword \/ ForgotPasswordResume
    \/ Advance

VerificationSpec == AuthInit /\ [][VerificationNext]_vars

\* ===================================================== analytics engine
Done == pc = "done"

Returned == pc = "done" /\ ~IsExc(result)

Zero == [n |-> 0, d |-> 1]

\* C1: calling compute on an empty trade sequence raises no exception and
\* returns a report with total_trades = 0, win_rate = 0, profit_factor = 0
\* and an empty equity curve.
C1_EmptyInputZeroReport ==
    (Done /\ trades = <<>>) =>
        /\ ~IsExc(result)
        /\ result.total_trades = 0
        /\ result.win_rate = Zero
        /\ result.profit_factor = Zero
        /\ result.equity_curve = <<>>

\* C2: for every non-empty sequence of trades compute returns a report and
\* raises nothing: also without winners, without losers, with break-even
\* trades only, with a single trade, and when the chronologically first
\* trade has open_price * volume = 0.
C2_NonEmptyNeverRaises ==
    (Done /\ trades # <<>>) =>
        /\ ~IsExc(result)
        /\ result.total_trades = Len(trades)

\* a single break-even trade with a zero notional was computed
C2_Witness ==
    /\ Returned
    /\ Len(trades) = 1
    /\ trades[1].profit_usd = 0
    /\ trades[1].open_price * trades[1].volume = 0
    /\ result.total_profit_pct.d = 0

\* C3: the report counts every trade in exactly one class (winning iff
\* profit_usd > 0, losing iff < 0, break-even iff = 0), so the three counts
\* add up to total_trades.
C3_Partition ==
    Returned =>
        /\ result.total_trades = Len(trades)
        /\ result.winning_trades = Cardinality({i \in DOMAIN trades : trades[i].profit_usd > 0})
        /\ result.losing_trades = Cardinality({i \in DOMAIN trades : trades[i].profit_usd < 0})
        /\ result.break_even = Cardinality({i \in DOMAIN trades : trades[i].profit_usd = 0})
        /\ result.winning_trades + result.losing_trades + result.break_even
              = result.total_trades

\* a report over one winner, one loser and one break-even trade
C3_Witness ==
    /\ Returned
    /\ result.winning_trades = 1
    /\ result.losing_trades = 1
    /\ result.break_even = 1

\* C4: for a non-empty input the drawdown series (cumulative profit in
\* chronological order minus its running maximum) is <= 0 everywhere,
\* max_drawdown is its minimum and current_drawdown its last value; the
\* running maximum starts from the first cumulative value, not from zero.
C4_Drawdown ==
    (Done /\ trades # <<>>) =>
        LET df  == frame.df
            n   == Len(df)
            cum == [i \in 1..n |-> SumSeq([j \in 1..i |-> df[j].profit_usd])]
            dd  == [i \in 1..n |-> cum[i] - MaxOfSet({cum[j] : j \in 1..i})]
        IN  /\ ~IsExc(result)
            /\ n = Len(trades)
            /\ frame.drawdown = dd
            /\ \A i \in 1..n : frame.drawdown[i] <= 0
            /\ frame.drawdown[1] = 0
            /\ \E i \in 1..n : result.max_drawdown = dd[i]
            /\ \A i \in 1..n : result.max_drawdown <= dd[i]
            /\ result.current_drawdown = dd[n]

\* the first chronological trade loses and a later peak is given back
C4_Witness ==
    /\ Returned
    /\ frame.cumsum[1] < 0
    /\ result.max_drawdown < 0
    /\ result.current_drawdown < 0

\* C5: profit_factor is sum(positive profits) / abs(sum(negative profits))
\* when some trade has a negative profit, and exactly 0 otherwise.
C5_ProfitFactor ==
    Returned =>
        LET pos == SumSeq([i \in DOMAIN trades |->
                       IF trades[i].profit_usd > 0 THEN trades[i].profit_usd ELSE 0])
            neg == SumSeq([i \in DOMAIN trades |->
                       IF trades[i].profit_usd < 0 THEN trades[i].profit_usd ELSE 0])
            pf  == result.profit_factor
        IN  IF \E i \in DOMAIN trades : trades[i].profit_usd < 0
            THEN pf.d > 0 /\ pf.n * Abs(neg) = pos * pf.d
            ELSE pf = Zero

\* a report over winners only
C5_Witness ==
    /\ Returned
    /\ Len(trades) >= 2
    /\ \A i \in DOMAIN trades : trades[i].profit_usd > 0
    /\ result.profit_factor = Zero

\* the scenario's trades: the k-th in chronological order has the k-th profit
IsScenario(ts) ==
    /\ Len(ts) = Len(ScenarioProfits)
    /\ \A i \in DOMAIN ts :
          ts[i].profit_usd =
              ScenarioProfits[Cardinality({j \in DOMAIN ts : ts[j].open_time <= ts[i].open_time})]

\* C7: trades whose profits in chronological order are [100, -50, 200, -50, 0]
\* give total_trades = 5, winning = 2, losing = 2, break_even = 1,
\* total_profit = 200, win_rate = 40, equity curve [100, 50, 250, 200, 200],
\* running maximum [100, 100, 250, 250, 250], drawdown [0, -50, 0, -50, -50]
\* and max_drawdown = -50.
C7_Scenario ==
    (Done /\ IsScenario(trades)) =>
        /\ ~IsExc(result)
        /\ result.total_trades = 5
        /\ result.winning_trades = 2
        /\ result.losing_trades = 2
        /\ result.break_even = 1
        /\ result.total_profit = 200
        /\ result.win_rate = [n |-> 40, d |-> 1]
        /\ result.equity_curve = <<100, 50, 250, 200, 200>>
        /\ frame.running_max = <<100, 100, 250, 250, 250>>
        /\ frame.drawdown = <<0, -50, 0, -50, -50>>
        /\ result.max_drawdown = -50

\* the scenario was computed from a list handed over latest trade first
C7_Witness ==
    /\ Returned
    /\ IsScenario(trades)
    /\ trades[1].open_time = 5
    /\ trades[5].open_time = 1

\* ===================================================== trade normalizer
Loaded == pc = "done" /\ ~IsExc(presult) /\ "trades" \in DOMAIN presult

Supported == FileExtension(file) \in {".csv", ".xlsx", ".xls"}

\* the file's layout: open time, symbol, type, volume, open price, close
\* time, close price, profit
RowIsOperation(r) == r[2].k # "nan" /\ Lower(CellStr(r[3])) \in {"buy", "sell"}

RowCoerces(r) ==
    /\ \A i \in {4, 5, 7, 8} : r[i].k \in {"num", "nan"}
    /\ \A i \in {1, 6} : r[i].k = "time"

IdsOf(ts) == [k \in DOMAIN ts |-> ts[k].id]

\* 0-based positions of the data rows that are operations and coerce
GoodPositions(data) ==
    LET pos == SelectSeq([i \in DOMAIN data |-> i],
                         LAMBDA i : RowIsOperation(data[i]) /\ RowCoerces(data[i]))
    IN  [k \in DOMAIN pos |-> pos[k] - 1]

\* the labels of the row taken as header, after alias mapping
Resolved == RenameColumns(Columns(file.rows[pframe.header_row + 1]))

\* C8: when the required columns all resolve, a row whose profit (or other
\* field) fails type coercion does not make normalize fail: the Trades of all
\* other valid BUY/SELL rows are returned in their original order and exactly
\* the failing rows are left out.
C8_RowSkipTolerance ==
    (pc = "done" /\ Supported
        /\ \A c \in Range(required_columns) : c \in Range(Resolved)) =>
        /\ ~IsExc(presult)
        /\ IdsOf(presult.trades) = GoodPositions(pframe.data)
        /\ \A k \in DOMAIN presult.trades :
              LET r == pframe.data[presult.trades[k].id + 1]
              IN  /\ presult.trades[k].profit_usd = Float(r[8])
                  /\ presult.trades[k].open_time = r[1].n

\* a table with a non-numeric profit in its second row, between a sell and a
\* buy that are returned in that order
C8_Witness ==
    /\ Loaded
    /\ Len(pframe.data) = 3
    /\ pframe.data[2][8].k = "str"
    /\ RowIsOperation(pframe.data[2])
    /\ IdsOf(presult.trades) = <<0, 2>>
    /\ presult.trades[1].order_type = "SELL"
    /\ presult.trades[2].order_type = "BUY"

\* C9: normalize fails and returns no trades when the extension is not a
\* supported tabular format, or when a required canonical column is unresolved
\* after header detection and alias mapping; the error then names exactly the
\* missing canonical columns and lists the columns found.
C9_ParseError ==
    pc = "done" =>
        /\ ~Supported =>
              /\ IsExc(presult)
              /\ presult.exc = "ValueError"
              /\ presult.unsupported = FileExtension(file)
        /\ (Supported /\ \E c \in Range(required_columns) : c \notin Range(Resolved)) =>
              /\ IsExc(presult)
              /\ presult.exc = "ValueError"
              /\ Range(presult.missing) = {c \in Range(required_columns) : c \notin Range(Resolved)}
              /\ Len(presult.missing) = Cardinality(Range(presult.missing))
              /\ presult.available = Resolved

\* a table with operations but no profit column
C9_Witness ==
    /\ pc = "done"
    /\ Supported
    /\ Len(file.rows) >= 2
    /\ IsExc(presult)
    /\ presult.missing = <<"profit_usd">>

\* a row holds a time marker and a symbol marker, case-insensitively
HasMarkers(r) ==
    /\ \E i \in DOMAIN r : Lower(CellStr(r[i])) = "time"
    /\ \E i \in DOMAIN r : Lower(CellStr(r[i])) = "symbol"

\* 0-based index of the first raw row with both markers, 0 when there is none
DetectedHeader ==
    LET hits == {i \in DOMAIN file.rows : HasMarkers(file.rows[i])}
    IN  IF hits = {} THEN 0 ELSE MinOfSet(hits) - 1

\* the trades come from rows below raw row h only
TradesBelow(h) ==
    Loaded =>
        \A k \in DOMAIN presult.trades :
            LET at == h + 2 + presult.trades[k].id
            IN  /\ at \in (h + 2)..Len(file.rows)
                /\ RowIsOperation(file.rows[at])
                /\ presult.trades[k].profit_usd = Float(file.rows[at][8])

\* C10 as stated: for every supported file, normalize takes as header the
\* first row whose cells case-insensitively include a time marker and a symbol
\* marker (row 0 when no row qualifies) and produces trades only from the rows
\* after it.
C10_HeaderDetectionAnyFile ==
    (pc = "done" /\ Supported) =>
        /\ pframe.header_row = DetectedHeader
        /\ TradesBelow(DetectedHeader)

\* C10 amended: for a spreadsheet (.xlsx or .xls) normalize takes as header
\* the first row whose cells case-insensitively include a time marker and a
\* symbol marker (row 0 when no row qualifies) and produces trades only from
\* the rows after it; for a .csv file no detection is done: row 0 is the
\* header whatever the rows below it hold.
C10_HeaderDetection ==
    pc = "done" =>
        /\ FileExtension(file) \in {".xlsx", ".xls"} =>
              /\ pframe.header_row = DetectedHeader
              /\ TradesBelow(DetectedHeader)
        /\ FileExtension(file) = ".csv" =>
              /\ pframe.header_row = 0
              /\ TradesBelow(0)

\* an .xls spreadsheet with three preamble rows, the header in row 3, and a
\* trade
C10_Witness ==
    /\ Loaded
    /\ file.ext = ".xls"
    /\ Len(file.rows) >= 5
    /\ ~HasMarkers(file.rows[1]) /\ ~HasMarkers(file.rows[2]) /\ ~HasMarkers(file.rows[3])
    /\ HasMarkers(file.rows[4])
    /\ pframe.header_row = 3
    /\ Len(presult.trades) >= 1

\* the raw row a returned Trade was built from
RowOf(t) == pframe.data[t.id + 1]

\* the symbol cell of a row is empty or null
SymbolEmpty(r) == r[2].k = "nan" \/ Strip(CellStr(r[2])) = ""

\* the type cell of a row matches BUY or SELL case-insensitively
TypeMatches(r) == Lower(CellStr(r[3])) \in {"buy", "sell"}

\* C11: normalize drops, without raising, every row whose symbol is empty or
\* null or whose order_type does not case-insensitively match BUY or SELL:
\* every returned Trade has a non-empty symbol and an order_type in
\* {BUY, SELL}, and no returned Trade comes from such a row.
C11_RowFiltering ==
    Loaded =>
        \A k \in DOMAIN presult.trades :
            /\ presult.trades[k].symbol # ""
            /\ presult.trades[k].order_type \in {"BUY", "SELL"}
            /\ ~SymbolEmpty(RowOf(presult.trades[k]))
            /\ TypeMatches(RowOf(presult.trades[k]))

\* the profit of a returned Trade is a number with this sign test
ProfitIs(t, Test) == RowOf(t)[8].k = "num" /\ Test[Sign(RowOf(t)[8].n)]

Positive == [s \in {-1, 0, 1} |-> s = 1]

Negative == [s \in {-1, 0, 1} |-> s = -1]

IsZero == [s \in {-1, 0, 1} |-> s = 0]

\* C12 as stated: every Trade produced by normalize has status WINNER iff
\* profit_usd > 0, LOSER iff profit_usd < 0 and BREAK_EVEN iff
\* profit_usd == 0, and no other status value is emitted.
C12_StatusWinnerLoser ==
    Loaded =>
        \A k \in DOMAIN presult.trades :
            LET t == presult.trades[k]
            IN  /\ t.status \in {"WINNER", "LOSER", "BREAK_EVEN"}
                /\ t.status = "WINNER" <=> ProfitIs(t, Positive)
                /\ t.status = "LOSER" <=> ProfitIs(t, Negative)
                /\ t.status = "BREAK_EVEN" <=> ProfitIs(t, IsZero)

\* C12 amended: every Trade produced by normalize has status GANADOR iff
\* profit_usd > 0, PERDEDOR iff profit_usd < 0 and BREAK_EVEN otherwise,
\* which is when profit_usd == 0 or profit_usd is nan (an empty profit
\* cell); no other status value is emitted.
C12_StatusBySign ==
    Loaded =>
        \A k \in DOMAIN presult.trades :
            LET t == presult.trades[k]
            IN  /\ t.status \in {"GANADOR", "PERDEDOR", "BREAK_EVEN"}
                /\ t.status = "GANADOR" <=> ProfitIs(t, Positive)
                /\ t.status = "PERDEDOR" <=> ProfitIs(t, Negative)
                /\ t.status = "BREAK_EVEN" <=>
                      (ProfitIs(t, IsZero) \/ RowOf(t)[8].k = "nan")

\* a winner and a loser were returned together
C12_Witness ==
    /\ Loaded
    /\ Len(presult.trades) = 2
    /\ presult.trades[1].status = "GANADOR" /\ presult.trades[1].profit_usd = 100
    /\ presult.trades[2].status = "PERDEDOR" /\ presult.trades[2].profit_usd = -50

\* ===================================================== ordering
\* trade a comes before trade b by open_time, ties broken by id
Before(a, b) ==
    \/ a.open_time < b.open_time
    \/ a.open_time = b.open_time /\ a.id < b.id

\* the trades in open_time order with ties broken by id ascending
ByTimeThenId(ts) ==
    [k \in DOMAIN ts |->
        ts[CHOOSE i \in DOMAIN ts :
              Cardinality({j \in DOMAIN ts : Before(ts[j], ts[i])}) = k - 1]]

\* C13: the time-series outputs of compute follow the trades sorted by
\* open_time ascending with ties broken by id ascending: of two trades with
\* equal open_time the one with the smaller id contributes first to the
\* equity curve, the drawdown and the streak computation, whatever their
\* order in the input sequence.
C13_TiesById ==
    (Done /\ trades # <<>>) =>
        LET ord == ByTimeThenId(trades)
        IN  /\ ~IsExc(result)
            /\ frame.df = ord
            /\ result.equity_curve =
                  [i \in DOMAIN ord |-> SumSeq([j \in 1..i |-> ord[j].profit_usd])]
            /\ frame.sign = [i \in DOMAIN ord |-> Sign(ord[i].profit_usd)]

\* ===================================================== assigned ids
\* the data row at 1-based position i yields a Trade
RowYieldsTrade(i) == RowIsOperation(pframe.data[i]) /\ RowCoerces(pframe.data[i])

\* C14 as stated: normalize assigns ids sequentially in post-filtering
\* order: the k-th returned Trade carries the k-th value of a consecutive
\* integer sequence (each id is the id before it plus one, whatever the
\* first), ids are unique and strictly increasing in output order.
C14_IdsConsecutive ==
    Loaded =>
        /\ \A k \in 1..(Len(presult.trades) - 1) :
              presult.trades[k + 1].id = presult.trades[k].id + 1
        /\ \A j, k \in DOMAIN presult.trades :
              j < k => presult.trades[j].id < presult.trades[k].id

\* C14 amended: the id of a returned Trade is the 0-based position of its row
\* among the data rows of the table, counted before filtering: the k-th
\* returned Trade carries k - 1 plus the number of rows before it that were
\* dropped or skipped; ids are unique and strictly increasing in output
\* order, and consecutive only where no row in between was left out.
C14_IdsRowPositions ==
    Loaded =>
        /\ \A k \in DOMAIN presult.trades :
              LET id == presult.trades[k].id
              IN  /\ id \in 0..(Len(pframe.data) - 1)
                  /\ RowYieldsTrade(id + 1)
                  /\ id = (k - 1) + Cardinality({i \in 1..id : ~RowYieldsTrade(i)})
        /\ \A j, k \in DOMAIN presult.trades :
              j < k => presult.trades[j].id < presult.trades[k].id

\* two Trades are returned around a row that is not an operation: their ids
\* are 0 and 2
C14_Witness ==
    /\ Loaded
    /\ Len(pframe.data) = 3
    /\ ~RowIsOperation(pframe.data[2])
    /\ IdsOf(presult.trades) = <<0, 2>>

\* ===================================================== HTTP endpoints
Asked(requests) == "request" \in DOMAIN response /\ response.request \in requests

\* no trade file has been uploaded: data/raw is missing or holds no .csv
NoCsv == ~raw_dir.exists \/ CsvFiles(raw_dir) = <<>>

\* C15: when no trade file has been uploaded (data/raw missing or holding no
\* .csv file), GET /summary, /trades and /by-symbol each answer with status
\* 404 or 500, never with 200 and never with a report or a trade list.
C15_NoDataIsError ==
    [][((GetSummary \/ GetTrades \/ GetBySymbol) /\ NoCsv) =>
          /\ response'.status_code \in {404, 500}
          /\ "body" \notin DOMAIN response']_vars

\* data/raw holds a spreadsheet only and the summary was asked for: the
\* handler's own 404 is answered as a 500
C15_Witness ==
    /\ Asked({"GET /summary"})
    /\ raw_dir.exists
    /\ Len(raw_dir.files) = 1
    /\ CsvFiles(raw_dir) = <<>>
    /\ response.status_code = 500
    /\ response.detail.exc = "HTTPException"

\* what the normalizer makes of a stored file
Normalized(f) == load_trades_from_file(f).presult

\* C16: POST /upload-trades with a well-formed trade file stores the file,
\* normalizes it and returns success = True with trades_count equal to the
\* number of Trades the normalizer produces from that file; it answers 400
\* only when storing or parsing fails.
C16_UploadCounts ==
    [][(UploadTrades /\ ~IsExc(Normalized(response'.file))) =>
          /\ response'.status_code = 200
          /\ response'.body.success
          /\ response'.body.trades_count = Len(Normalized(response'.file).trades)]_vars

\* C17: every analytics read recomputes from scratch on the most recently
\* modified stored .csv file, normalization first and computation after it,
\* so a read answers with the report of exactly the newest stored file.
C17_ReadReflectsNewest ==
    [][((GetSummary \/ GetTimeseries) /\ ~NoCsv
            /\ ~IsExc(Normalized(LatestFile(CsvFiles(raw_dir))))) =>
          LET a == calculate_all_analytics(
                       Normalized(LatestFile(CsvFiles(raw_dir))).trades).result
          IN  /\ response'.status_code = 200
              /\ response'.request = "GET /summary" => response'.body = a
              /\ response'.request = "GET /timeseries" =>
                    response'.body = [dates  |-> a.equity_dates,
                                      values |-> a.equity_curve]]_vars

\* ===================================================== equity curve
\* df holds every trade of ts once, in non-decreasing open_time order
Chronological(df, ts) ==
    /\ Len(df) = Len(ts)
    /\ \A i \in DOMAIN ts : \E j \in DOMAIN df : df[j] = ts[i]
    /\ \A i \in 1..(Len(df) - 1) : df[i].open_time <= df[i + 1].open_time

\* C18: equity_curve and equity_dates are parallel arrays with exactly
\* total_trades entries each; equity_curve[i] is the sum of profit_usd of the
\* first i + 1 trades in chronological order, its last entry equals
\* total_profit, and equity_dates (the ISO timestamps of those trades) is
\* non-decreasing.
C18_EquityCurve ==
    Returned =>
        LET df == frame.df
            n  == result.total_trades
        IN  /\ Chronological(df, trades)
            /\ Len(result.equity_curve) = n
            /\ Len(result.equity_dates) = n
            /\ \A i \in 1..n :
                  result.equity_curve[i] = SumSeq([j \in 1..i |-> df[j].profit_usd])
            /\ result.equity_curve[n] = result.total_profit
            /\ \A i \in 1..n : result.equity_dates[i] = IsoFormat(df[i].open_time)
            /\ \A i \in 1..(n - 1) : df[i].open_time <= df[i + 1].open_time

\* three trades handed over latest first, with a curve that rises and falls
C18_Witness ==
    /\ Returned
    /\ Len(trades) = 3
    /\ trades[1].open_time > trades[3].open_time
    /\ result.equity_curve = <<100, 50, 150>>
    /\ result.equity_dates = <<"2025-01-01T09:00:00", "2025-01-01T09:00:00", "2025-01-01T10:00:00">>

\* ===================================================== payoff ratio
PositiveProfits == SelectSeq(ProfitCol(trades), LAMBDA u : u > 0)

NegativeProfits == SelectSeq(ProfitCol(trades), LAMBDA u : u < 0)

\* C19: payoff_ratio is mean(positive profits) / abs(mean(negative profits))
\* when there is a losing trade; without losing trades the denominator is 1,
\* so payoff_ratio is mean(positive profits); without winning trades
\* payoff_ratio is 0.
C19_PayoffRatio ==
    Returned =>
        LET pos == PositiveProfits
            neg == NegativeProfits
            pr  == result.payoff_ratio
        IN  /\ pos = <<>> => pr = Zero
            /\ (pos # <<>> /\ neg = <<>>) => pr = Rat(SumSeq(pos), Len(pos))
            /\ (pos # <<>> /\ neg # <<>>) =>
                  /\ pr.d > 0
                  /\ pr.n * Len(pos) * Abs(SumSeq(neg)) = pr.d * SumSeq(pos) * Len(neg)

\* one winner of 100 against losers of 100 and 50: 100 / 75
C19_Witness ==
    /\ Returned
    /\ Len(PositiveProfits) = 1
    /\ Len(NegativeProfits) = 2
    /\ result.payoff_ratio = [n |-> 4, d |-> 3]

\* ===================================================== streaks
\* lengths of the runs of consecutive trades of frame.df whose profit has sign s
RunLengths(s) ==
    {j - i + 1 : <<i, j>> \in
        {w \in (DOMAIN frame.df) \X (DOMAIN frame.df) :
            /\ w[1] <= w[2]
            /\ \A k \in w[1]..w[2] : Sign(frame.df[k].profit_usd) = s}}

\* C20: with the trades in chronological order, longest_win_streak is the
\* length of the longest run of consecutive positive-profit trades and
\* longest_loss_streak that of the longest run of negative-profit trades (0
\* when there is no such run); a break-even trade ends a run and counts in
\* neither, and current_streak is the sign (-1, 0 or 1) of the most recent
\* trade, not a run length.
C20_Streaks ==
    Returned =>
        /\ Chronological(frame.df, trades)
        /\ result.longest_win_streak = MaxOfSet(RunLengths(1) \cup {0})
        /\ result.longest_loss_streak = MaxOfSet(RunLengths(-1) \cup {0})
        /\ result.current_streak = Sign(frame.df[Len(frame.df)].profit_usd)

\* two winners with a break-even trade between them
C20_Witness ==
    /\ Returned
    /\ frame.sign = <<1, 0, 1>>
    /\ result.longest_win_streak = 1
    /\ result.longest_loss_streak = 0
    /\ result.current_streak = 1

\* ===================================================== breakdowns
RECURSIVE SumOver(_, _)
\* the sum of f over the keys in S
SumOver(f, S) ==
    IF S = {} THEN 0
    ELSE LET k == CHOOSE x \in S : TRUE IN f[k] + SumOver(f, S \ {k})

Column(records, field) == [k \in DOMAIN records |-> records[k][field]]

Ascending(s) == \A k \in 1..(Len(s) - 1) : s[k] < s[k + 1]

\* C21: for a non-empty trade sequence symbol_stats has one entry per
\* distinct symbol, daily_stats one record per calendar day and monthly_stats
\* one record per calendar month present in the data, in ascending order; in
\* each breakdown the trade counts sum to total_trades and the profits to
\* total_profit, and each monthly record's best_day and worst_day are days
\* of that month.
C21_BreakdownConservation ==
    Returned =>
        LET ss == result.symbol_stats
            ds == result.daily_stats
            ms == result.monthly_stats
        IN  /\ DOMAIN ss = {trades[i].symbol : i \in DOMAIN trades}
            /\ SumOver([s \in DOMAIN ss |-> ss[s].trades], DOMAIN ss) = result.total_trades
            /\ SumOver([s \in DOMAIN ss |-> ss[s].profit], DOMAIN ss) = result.total_profit
            /\ Ascending(Column(ds, "date"))
            /\ Range(Column(ds, "date")) = {DateOf(trades[i].open_time) : i \in DOMAIN trades}
            /\ SumSeq(Column(ds, "trades")) = result.total_trades
            /\ SumSeq(Column(ds, "profit")) = result.total_profit
            /\ Ascending(Column(ms, "month"))
            /\ Range(Column(ms, "month")) = {MonthOf(trades[i].open_time) : i \in DOMAIN trades}
            /\ SumSeq(Column(ms, "trades")) = result.total_trades
            /\ SumSeq(Column(ms, "profit")) = result.total_profit
            /\ \A k \in DOMAIN ms :
                  \A day \in {ms[k].best_day, ms[k].worst_day} :
                      \E i \in DOMAIN trades :
                          /\ DateOf(trades[i].open_time) = day
                          /\ MonthOf(trades[i].open_time) = ms[k].month

\* three trades on three days of two months, in two symbols
C21_Witness ==
    /\ Returned
    /\ Len(result.daily_stats) = 3
    /\ Len(result.monthly_stats) = 2
    /\ Cardinality(DOMAIN result.symbol_stats) = 2
    /\ result.monthly_stats[1].best_day # result.monthly_stats[1].worst_day

\* ===================================================== distributions
\* C22: profit_distribution always has the 8 fixed profit buckets and
\* duration_distribution the 7 fixed duration buckets, whatever the data;
\* every trade is counted in exactly one bucket of each distribution, so the
\* counts of each distribution sum to total_trades, also for a profit on a
\* bucket edge and for a duration that is 0 or negative.
C22_Distributions ==
    Returned =>
        /\ Len(result.profit_distribution) = 8
        /\ SumSeq(result.profit_distribution) = result.total_trades
        /\ Len(result.duration_distribution) = 7
        /\ SumSeq(result.duration_distribution) = result.total_trades

\* ===================================================== total_profit_pct
\* the earliest trade of the input (the first of them in input order when
\* several share the earliest open_time)
FirstTrade ==
    trades[MinOfSet({i \in DOMAIN trades :
                        \A j \in DOMAIN trades : trades[i].open_time <= trades[j].open_time})]

\* C23: total_profit_pct equals
\* total_profit / abs(open_price * volume * 100000) * 100 with open_price and
\* volume those of the chronologically first trade (the first after sorting
\* by open_time, not the first of the input sequence); no other trade's price
\* or volume affects it.  A zero notional gives the float quotient by zero.
C23_TotalProfitPct ==
    Returned =>
        LET notional == Abs(FirstTrade.open_price * FirstTrade.volume * 100000)
            total    == SumSeq(ProfitCol(trades))
            pct      == result.total_profit_pct
        IN  /\ frame.df[1] = FirstTrade
            /\ notional # 0 =>
                  /\ pct.d > 0
                  /\ pct.n * notional = total * 100 * pct.d
            /\ notional = 0 => (pct.d = 0 /\ pct.n = Sign(total))

\* the first trade of the input is the later one and has a zero price; the
\* earlier trade has price 1
C23_Witness ==
    /\ Returned
    /\ Len(trades) = 2
    /\ trades[1].open_time > trades[2].open_time
    /\ trades[1].open_price = 0
    /\ trades[2].open_price = 1
    /\ trades[1].profit_usd = 100 /\ trades[2].profit_usd = 100
    /\ result.total_profit_pct = [n |-> 1, d |-> 5]

\* ===================================================== derived fields
\* the data row is a BUY/SELL row whose volume, prices and profit are numbers
NumericOperation(r) == RowIsOperation(r) /\ \A i \in {4, 5, 7, 8} : r[i].k = "num"

\* C24: derived field computation never raises: a BUY/SELL row with numeric
\* fields yields a Trade whose profit_pct is profit_usd relative to the
\* notional (open_price * volume * 100), 0 when the notional is zero, and
\* whose duration is the whole minutes between open and close, 0 when either
\* timestamp is unparseable.
C24_DerivedFields ==
    Loaded =>
        \A i \in DOMAIN pframe.data :
            LET r == pframe.data[i]
            IN  NumericOperation(r) =>
                    \E k \in DOMAIN presult.trades :
                        LET t == presult.trades[k]
                            notional == Abs(r[5].n * r[4].n * 100)
                        IN  /\ t.id = i - 1
                            /\ t.profit_pct =
                                  IF notional = 0 THEN Zero ELSE Rat(r[8].n * 100, notional)
                            /\ t.duration =
                                  IF r[1].k = "time" /\ r[6].k = "time"
                                  THEN (r[6].n - r[1].n) * 60 ELSE 0

\* ===================================================== stored files
ReadAnswers(dir) ==
    {get_trades(dir), get_analytics_summary(dir), get_timeseries(dir), get_symbol_stats(dir)}

IsPrefix(s, t) == Len(s) <= Len(t) /\ SubSeq(t, 1, Len(s)) = s

\* C25: the upload endpoint writes the received file into data/raw before
\* normalizing it and never removes it: when an upload is answered with 400
\* the file of that name is stored as the most recently modified one and
\* holds the received content (followed by the bytes that a longer file,
\* written under the same name while the upload was suspended, has beyond
\* the length of that content);
\* if it is a .csv every read endpoint selects it and fails for as long as
\* it is the latest .csv. No step removes a stored file.
C25_RejectedUploadIsStored ==
    /\ [][(UploadTrades /\ response'.status_code = 400) =>
            LET latest == raw_dir'.files[Len(raw_dir'.files)]
            IN  /\ raw_dir'.exists
                /\ Len(raw_dir'.files) >= 1
                /\ latest.name = response'.file.name
                /\ IsPrefix(response'.file.rows, latest.rows)
                /\ response'.file.ext = ".csv" =>
                      /\ LatestFile(CsvFiles(raw_dir')).name = response'.file.name
                      /\ \A a \in ReadAnswers(raw_dir') : a.status_code = 500]_vars
    /\ [][\A i \in DOMAIN raw_dir.files :
              \E j \in DOMAIN raw_dir'.files :
                  raw_dir'.files[j].name = raw_dir.files[i].name]_vars
    /\ [][((GetTrades \/ GetSummary \/ GetTimeseries \/ GetBySymbol) /\ ~NoCsv) =>
              response'.status_code = 500]_vars

\* a .csv without a profit column was rejected after another file was
\* stored, and a longer upload of the same name was written while it was
\* suspended: its content is followed by what is left of that upload's
\* third line
C25_Witness ==
    /\ Asked({"POST /upload-trades"})
    /\ response.status_code = 400
    /\ response.file.ext = ".csv"
    /\ IsExc(Normalized(response.file))
    /\ Len(raw_dir.files) = 2
    /\ raw_dir.files[2].name = response.file.name
    /\ raw_dir.files[2].rows =
          Append(response.file.rows, <<Str("025.01.01 10:00:00")>> \o Tail(SellRow))

\* ========================================================= authentication
\* the user documents a sign-in names: by email, and by email and password
Registered(email) == {u \in db.users : u.email = email}

Matching(login_data) ==
    {u \in Registered(login_data.email) :
        verify_password(login_data.password, u.password_hash)}

LoginData == [email : Emails, password : Passwords]

\* C26: a sign-in creates a session and returns a token only when the email
\* is registered, the password matches the stored hash and the user's
\* email_verified is true, all three as authenticate_user reads them; it
\* answers 401 for an unknown email or a wrong password and 403 for an
\* unverified email, and with 401 or 403 the collections are left as they
\* were. A session document is only ever inserted by a sign-in that passed
\* these checks, for the user and with the token of its answer.
C26_SignInGuards ==
    /\ [][\A login_data \in LoginData :
              SignInWith(login_data) =>
                  /\ db' = db
                  /\ Len(calls') > Len(calls) =>
                         \E u \in Matching(login_data) : u.email_verified
                  /\ Matching(login_data) = {} =>
                         (calls' = calls /\ response'.status_code = 401)
                  /\ (Matching(login_data) # {} /\
                      \A u \in Matching(login_data) : ~ u.email_verified) =>
                         (calls' = calls /\ response'.status_code = 403)]_vars
    /\ [][~ (db'.sessions \subseteq db.sessions) =>
              \E i \in DOMAIN calls :
                  /\ SignInResumes(i)
                  /\ response'.status_code = 200
                  /\ response'.body.token \in tokens'
                  /\ calls[i].user.email_verified
                  /\ verify_password(calls[i].args.password, calls[i].user.password_hash)
                  /\ db'.sessions \ db.sessions =
                         {[user_id    |-> calls[i].user.id,
                           token      |-> response'.body.token,
                           expires_at |-> response'.body.expires_at]}]_vars

\* a sign-in was answered with a token, and its session is stored
C26_Witness ==
    /\ pc = "auth"
    /\ "request" \in DOMAIN response
    /\ response.request = "POST /sign-in"
    /\ response.status_code = 200
    /\ \E s \in db.sessions : s.token = response.body.token

\* every access token sign_in can issue in the model
AccessTokens ==
    {create_access_token([sub |-> 1, email |-> e, role |-> "user"], t).token :
        e \in SignUpEmails, t \in Instants}

Stored(token) == {s \in db.sessions : s.token = token}

Exchange(request, authorization, status_code) ==
    /\ "request" \in DOMAIN response
    /\ response.request = request
    /\ response.args = authorization
    /\ response.status_code = status_code

\* a protected request is answered 200 only for a token that verifies, whose
\* session document is stored and not expired, and whose user exists
C27_AcceptedOnlyIfStored ==
    [][\A i \in DOMAIN calls :
          (GetMeResumes(i) /\ Len(calls') < Len(calls) /\ response'.status_code = 200) =>
              LET token == calls[i].args.bearer
              IN  /\ ~ IsNone(verify_token(token, clock))
                  /\ \E s \in Stored(token) : ~ (s.expires_at < clock)
                  /\ \E u \in db.users : u.id = token.sub]_vars

\* once a token is signed out, a protected request with it is not accepted:
\* the answer that follows the sign-out is no 200 for that token
C27_RejectedAfterSignOut ==
    [][\A token \in AccessTokens :
          Exchange("POST /sign-out", Bearer(token), 200) =>
              ~ Exchange("GET /users/me", Bearer(token), 200)']_vars

\* the sign-out that follows a successful sign-out of the same token answers 404
C27_SecondSignOut ==
    [][\A token \in AccessTokens :
          (Exchange("POST /sign-out", Bearer(token), 200) /\ SignOutWith(Bearer(token)))
              => response'.status_code = 404]_vars

\* a protected request with the token of an expired stored session answers
\* 401, and once it has answered no session document of that token is left
C27_ExpiredDeletedOnAccess ==
    [][\A authorization \in Headers :
          (GetMeWith(authorization) /\ calls' = calls /\ HasBearer(authorization) /\
           \E s \in Stored(authorization.bearer) : s.expires_at < clock) =>
              /\ response'.status_code = 401
              /\ \A s \in db'.sessions : s.token # authorization.bearer]_vars

\* C27: get_session returns a session only if the token verifies, a session
\* document with that token is stored, its expires_at is not in the past and
\* its user exists; after a successful sign-out of a token every later
\* get_session for it returns None and protected endpoints answer 401, a
\* second sign-out of the same token answers 404, and an expired stored
\* session is deleted on access and never returned.
C27_SessionLifecycle ==
    /\ C27_AcceptedOnlyIfStored
    /\ C27_RejectedAfterSignOut
    /\ C27_SecondSignOut
    /\ C27_ExpiredDeletedOnAccess

\* suspended reset i answers 200 in this step
ResetSucceeds(i) ==
    /\ ResetPasswordResumes(i)
    /\ Len(calls') < Len(calls)
    /\ response'.status_code = 200

\* the last answer is a successful reset for the user of email
ResetDone(email) ==
    /\ "request" \in DOMAIN response
    /\ response.request = "POST /reset-password"
    /\ response.status_code = 200
    /\ response.args.token.email = email

\* get_session accepts the token: it verifies and its session is stored
Accepted(token) ==
    ~ IsNone(verify_token(token, clock)) /\ Stored(token) # {}

Authenticates(d, email, password) ==
    ~ IsNone(authenticate_user(d, [email |-> email, password |-> password]))

\* C28: a successful reset_password deletes every session of the user, so
\* get_session rejects every token issued before it; once the password is
\* changed no other password authenticates, and a sign-in answered after the
\* reset has answered gets a session only for a password that authenticates;
\* a reset_password that fails leaves users and sessions unchanged.
C28_ResetRevokes ==
    /\ [][\A i \in DOMAIN calls :
              ResetSucceeds(i) =>
                  /\ \A s \in db'.sessions : s.user_id # calls[i].user.id
                  /\ \A token \in tokens :
                         ("sub" \in DOMAIN token /\ token.sub = calls[i].user.id)
                             => ~ Accepted(token)']_vars
    /\ [][\A i \in DOMAIN calls :
              (ResetPasswordResumes(i) /\ calls[i].pc = "users.update_one") =>
                  \A p \in Passwords \ {calls[i].args.new_password} :
                      ~ Authenticates(db', calls[i].user.email, p)]_vars
    /\ [][\A i \in DOMAIN calls :
              (SignInResumes(i) /\ response'.status_code = 200
                  /\ ResetDone(calls[i].args.email)) =>
                  Authenticates(db, calls[i].args.email, calls[i].args.password)]_vars
    /\ [][\A token \in tokens \cup {Forged}, new_password \in Passwords :
              (ResetPasswordWith([token |-> token, new_password |-> new_password])
                  /\ calls' = calls) =>
                  (response'.status_code = 400 /\ db' = db)]_vars

VerificationsOf(d, identifier) == {v \in d.verifications : v.identifier = identifier}

\* suspended handler i inserts its verification and answers in this step
Issues(i) ==
    /\ i \in DOMAIN calls
    /\ calls[i].pc = "verifications.insert_one"
    /\ calls' = WithoutCall(i)
    /\ response'.request = calls[i].request

\* suspended verify_email i answers 200 in this step
VerifySucceeds(i) ==
    /\ VerifyEmailResumes(i)
    /\ Len(calls') < Len(calls)
    /\ response'.status_code = 200

\* C29: only the most recently issued, unexpired, unused code verifies an
\* email. Issuing a verification for an identifier (sign-up, resend, or
\* forgot_password with its reset token) leaves it as the only one stored for
\* that identifier, so at most one verification per identifier is ever
\* stored; verify_email succeeds only with a code that is stored, found at
\* most 15 minutes after its issue; it sets email_verified, which is never
\* unset, and deletes the code, so a code that has succeeded is not stored
\* for a second success.
C29_OneLiveCode ==
    /\ [][\A e \in Emails : Cardinality(VerificationsOf(db', e)) <= 1]_vars
    /\ [][\A i \in DOMAIN calls :
              Issues(i) =>
                  VerificationsOf(db', calls[i].identifier) =
                      {v \in db'.verifications :
                          /\ v.identifier = calls[i].identifier
                          /\ v.code = calls[i].code
                          /\ v.expires_at = calls[i].expires_at
                          /\ v \notin db.verifications}]_vars
    /\ [][\A verify_data \in [email : Emails, code : Codes] :
              (VerifyEmailWith(verify_data) /\ Len(calls') > Len(calls)) =>
                  \E v \in VerificationsFor(db, verify_data.email, verify_data.code) :
                      ~ (v.expires_at < clock)]_vars
    /\ [][\A i \in DOMAIN calls :
              VerifySucceeds(i) =>
                  /\ calls[i].verification \in db.verifications
                  /\ calls[i].verification \notin db'.verifications
                  /\ \E u \in db'.users :
                         u.email = calls[i].args.email /\ u.email_verified]_vars
    /\ [][\A u \in db.users : u.email_verified =>
              \E w \in db'.users : w.id = u.id /\ w.email_verified]_vars

\* ============================================================ sign-up race
\* C30: emails are unique among users. A sign-up for an email that is
\* registered answers 400 and changes no collection, so it inserts no user
\* and no verification; and however concurrent sign-ups for one email
\* interleave between their find_one and their insert_one, at most one user
\* document with that email is ever stored.
C30_EmailsUnique ==
    /\ [][\A e \in Emails : Cardinality(UsersByEmail(db', e)) <= 1]_vars
    /\ [][\A email \in SignUpEmails, password \in SignUpPasswords, code \in SignUpCodes :
              (SignUpWith([email |-> email, password |-> password], code)
                  /\ Registered(email) # {}) =>
                  /\ calls' = calls
                  /\ response'.status_code = 400
                  /\ db' = db]_vars

\* two sign-ups for one email were in flight together: the one that inserted
\* second was answered 500, and one user document is stored
C30_Witness ==
    /\ pc = "auth"
    /\ "request" \in DOMAIN response
    /\ response.request = "POST /sign-up"
    /\ response.status_code = 500
    /\ response.body = Detail("DuplicateKeyError")
    /\ Cardinality(UsersByEmail(db, response.args.email)) = 1

====
